---------------------------- MODULE Spec2Model ----------------------------
(***************************************************************************)
(* Request classification, caching and substitution engine of src/1.js:    *)
(* the pattern tables, SmartDataClassifier, shouldInterceptUrl with the    *)
(* URLClassificationCache, isSessionId, FeatureVectorSpoofer, and the      *)
(* transport adapters of NetworkInterceptor (fetch, XMLHttpRequest, axios, *)
(* http/https).                                                            *)
(*                                                                         *)
(* JavaScript strings are TLA+ strings; a JavaScript value that may be     *)
(* undefined, a string or an object is a record [t, s, o, parses].         *)
(***************************************************************************)
EXTENDS Integers, Sequences, FiniteSets, TLC

VARIABLES
    req,            \* the call the host has issued and that has not run yet
    ret,            \* return value of the last direct call of a function
    cache,          \* URLClassificationCache.cache (Map, in insertion order)
    stats,          \* URLClassificationCache.stats
    mainSessionId,  \* SessionManager.sessionIds.main
    xhr,            \* the XMLHttpRequest object the host works with
    call,           \* the adapter call under observation
    ncalls,         \* number of calls the host has issued
    born,           \* history: when each key of the cache was inserted
    fakeDataCache,  \* FeatureVectorSpoofer.fakeDataCache (keys in insertion order)
    emitted         \* history: what calculateHash and
                    \* generateCompleteFeatureVector have returned

vars == <<req, ret, cache, stats, mainSessionId, xhr, call, ncalls, born,
          fakeDataCache, emitted>>

----------------------------------------------------------------------------
(* Bounds of the model                                                     *)

\* calls the host issues in one behaviour
MaxCalls == 2

\* calls of the cache's methods in one behaviour
MaxOps == 4

\* calls of the spoofer's methods in one behaviour
MaxSynthOps == 3

\* capacity of the classification cache in the model (1000 in the source)
maxCacheSize == 2

----------------------------------------------------------------------------
(* String primitives of JavaScript                                         *)

\* the lowercase letter of every uppercase letter
lowerOf ==
    LET upper == "ABCDEFGHIJKLMNOPQRSTUVWXYZ"
        lower == "abcdefghijklmnopqrstuvwxyz"
    IN  [c \in {SubSeq(upper, i, i) : i \in 1..26} |->
            LET i == CHOOSE j \in 1..26 : SubSeq(upper, j, j) = c
            IN  SubSeq(lower, i, i)]

\* String.prototype.toLowerCase on one character
LowerChar(c) == IF c \in DOMAIN lowerOf THEN lowerOf[c] ELSE c

\* String.prototype.toLowerCase, character by character (the string is halved
\* so that the evaluation stays shallow)
RECURSIVE toLowerCase(_)
toLowerCase(s) ==
    IF Len(s) <= 1 THEN LowerChar(s)
    ELSE toLowerCase(SubSeq(s, 1, Len(s) \div 2))
         \o toLowerCase(SubSeq(s, Len(s) \div 2 + 1, Len(s)))

\* String.prototype.includes: p occurs in s as a substring (case-sensitive)
includes(s, p) ==
    \E i \in 1..(Len(s) - Len(p) + 1) : SubSeq(s, i, i + Len(p) - 1) = p

\* Array.prototype.some / find over a pattern table whose patterns have been
\* lowercased: some pattern occurs in the already lowercased string
somePatternIn(lowerPatterns, lowered) ==
    \E i \in DOMAIN lowerPatterns : includes(lowered, lowerPatterns[i])

\* pattern.toLowerCase() of every pattern of a table
lowerCased(patterns) == [i \in DOMAIN patterns |-> toLowerCase(patterns[i])]

\* the printable ASCII characters of codes 32..95 and of codes 97..126
AsciiLow ==
    " !\"#$%&'()*+,-./0123456789:;<=>?@ABCDEFGHIJKLMNOPQRSTUVWXYZ[\\]^_"

AsciiHigh == "abcdefghijklmnopqrstuvwxyz{|}~"

\* the code of every printable ASCII character
codeOf ==
    [c \in {SubSeq(AsciiLow, i, i) : i \in 1..Len(AsciiLow)}
            \cup {SubSeq(AsciiHigh, i, i) : i \in 1..Len(AsciiHigh)} |->
        IF \E i \in 1..Len(AsciiLow) : SubSeq(AsciiLow, i, i) = c
        THEN 31 + (CHOOSE i \in 1..Len(AsciiLow) : SubSeq(AsciiLow, i, i) = c)
        ELSE 96 + (CHOOSE i \in 1..Len(AsciiHigh) : SubSeq(AsciiHigh, i, i) = c)]

\* String.prototype.charCodeAt for a one-character string
charCodeAt(c) == codeOf[c]

----------------------------------------------------------------------------
(* Pattern tables                                                          *)

TELEMETRY_PATTERNS ==
    << "record-session-events", "report-error", "record-request-events",
       "record-user-events", "record-preference-sample", "chat-feedback",
       "completion-feedback", "next-edit-feedback", "analytics", "telemetry",
       "usage-statistics", "user-stats", "event-logging", "data-collection",
       "data-gathering", "data-submission", "monitoring-data",
       "observation-data" >>

PRECISE_TELEMETRY_ENDPOINTS ==
    << "/record-session-events", "/record-request-events",
       "/record-user-events", "/record-preference-sample", "/chat-feedback",
       "/completion-feedback", "/next-edit-feedback", "/analytics",
       "/telemetry", "/usage", "/stats", "segment.io", "api.segment.io" >>

ESSENTIAL_ENDPOINTS ==
    << "report-feature-vector", "next-edit-stream", "batch-upload", "memorize",
       "completion", "chat-stream", "subscription-info", "get-models", "token",
       "codebase-retrieval", "agents/", "remote-agents", "list-stream",
       "augment-api", "augment-backend", "workspace-context", "symbol-index",
       "blob-upload", "codebase-upload", "file-sync", "is-user-configured",
       "list-repos", "d16.api.augmentcode.com", "client-metrics", "users/me",
       "api/v1/users/me", "clawcloudrun.com",
       "nlkxyddsfbdf.ap-southeast-1.clawcloudrun.com", "/proxy/gemini/",
       "streamGenerateContent", "generateContent", "/v1beta/models/",
       "gemini-2.5-pro" >>

CODE_INDEXING_PATTERNS ==
    << "checkpoint-blobs", "batch-upload", "codebase-retrieval", "file-sync",
       "workspace-context", "symbol-index", "blob-upload", "codebase-upload",
       "agents/", "augment-api", "augment-backend" >>

enhancedBlockedPatterns ==
    << "bug_report", "error_report", "crash_report", "diagnostic_data",
       "segment.io", "api.segment.io", "/v1/batch", "segment", "writeKey",
       "analytics.track", "analytics.identify", "user_id", "session_id",
       "anonymous_id", "device_id", "fingerprint", "tenant_id", "client_id" >>

INTERCEPT_PATTERNS == TELEMETRY_PATTERNS \o enhancedBlockedPatterns

\* local URLs that shouldInterceptUrl never blocks
importantPatterns ==
    << "vscode-webview://", "vscode-file://", "vscode-resource://",
       "localhost:", "127.0.0.1:", "file://", "data:", "blob:",
       "chrome-extension://", "moz-extension://", "ms-browser-extension://" >>

\* INTERCEPTOR_CONFIG.dataProtection
enableFeatureVectorSpoofer == TRUE
enableEnhancedWhitelist == TRUE

----------------------------------------------------------------------------
(* JavaScript values that travel as request bodies                         *)

\* undefined
Undefined == [t |-> "undefined", s |-> "", o |-> <<>>, parses |-> FALSE]

\* JSON.stringify of a flat object, given as its <<key, value>> pairs in order
RECURSIVE stringifyPairs(_)
stringifyPairs(o) ==
    IF Len(o) = 0 THEN ""
    ELSE "\"" \o o[1][1] \o "\":\"" \o o[1][2] \o "\""
         \o (IF Len(o) = 1 THEN "" ELSE "," \o stringifyPairs(Tail(o)))

JSONstringify(o) == "{" \o stringifyPairs(o) \o "}"

\* a string that is not JSON
Text(s) == [t |-> "string", s |-> s, o |-> <<>>, parses |-> FALSE]

\* the string JSON.stringify(o), which JSON.parse turns back into o
JsonText(o) == [t |-> "string", s |-> JSONstringify(o), o |-> o, parses |-> TRUE]

\* an object
Obj(o) == [t |-> "object", s |-> "", o |-> o, parses |-> FALSE]

\* !v
Falsy(v) ==
    \/ v.t = "undefined"
    \/ (v.t = "string" /\ v.s = "")
    \/ (v.t = "number" /\ v.s = "0")

\* v || ''
OrEmpty(v) == IF Falsy(v) THEN Text("") ELSE v

\* typeof data === 'string' ? data : JSON.stringify(data)
dataStr(v) == IF v.t = "string" THEN v.s ELSE JSONstringify(v.o)

----------------------------------------------------------------------------
(* SmartDataClassifier                                                     *)

\* the tables with every pattern lowercased, as each test lowercases them
essentialLower == lowerCased(ESSENTIAL_ENDPOINTS)
preciseLower == lowerCased(PRECISE_TELEMETRY_ENDPOINTS)
codeIndexingLower == lowerCased(CODE_INDEXING_PATTERNS)
telemetryLower == lowerCased(TELEMETRY_PATTERNS)
interceptLower == lowerCased(INTERCEPT_PATTERNS)

\* isEssentialEndpoint without context.toLowerCase(): the test a
\* case-sensitive comparison would make
isEssentialEndpoint_NoLowerCase(context) ==
    IF context = "" THEN FALSE
    ELSE somePatternIn(essentialLower, context)

isEssentialEndpoint(context) ==
    IF context = "" THEN FALSE
    ELSE somePatternIn(essentialLower, toLowerCase(context))

isPreciseTelemetryEndpoint(context) ==
    IF context = "" THEN FALSE
    ELSE somePatternIn(preciseLower, toLowerCase(context))

isCodeIndexingRelated(data, context) ==
    IF Falsy(data) THEN FALSE
    ELSE \/ somePatternIn(codeIndexingLower, toLowerCase(dataStr(data)))
         \/ somePatternIn(codeIndexingLower, toLowerCase(context))

isTelemetryData(data, context) ==
    IF Falsy(data) THEN FALSE
    ELSE \/ somePatternIn(telemetryLower, toLowerCase(dataStr(data)))
         \/ somePatternIn(telemetryLower, toLowerCase(context))

shouldInterceptUpload(data, context) ==
    IF isEssentialEndpoint(context) THEN FALSE
    ELSE IF isPreciseTelemetryEndpoint(context) THEN TRUE
    ELSE IF isTelemetryData(data, context) THEN TRUE
    ELSE IF isCodeIndexingRelated(data, context) THEN FALSE
    ELSE FALSE

----------------------------------------------------------------------------
(* URLClassificationCache                                                  *)

\* one round of the rolling hash, hash = ((hash << 5) - hash) + char kept to
\* 32 bits: 31 * hash + char modulo 2^32, on the two 16-bit halves <<hi, lo>>
hashStep(h, char) ==
    LET lo31 == h[2] * 31 + char
    IN  << (h[1] * 31 + lo31 \div 65536) % 65536, lo31 % 65536 >>

\* the loop over the characters i..j of s, entered with hash h (the range is
\* halved so that the evaluation stays shallow; the characters are taken in
\* order)
RECURSIVE rollingHash(_, _, _, _)
rollingHash(s, i, j, h) ==
    IF i > j THEN h
    ELSE IF i = j THEN hashStep(h, charCodeAt(SubSeq(s, i, i)))
    ELSE LET mid  == (i + j) \div 2
             left == rollingHash(s, i, mid, h)
         IN  IF left[1] >= 0 THEN rollingHash(s, mid + 1, j, left) ELSE left

\* the signed 32-bit integer of the halves <<hi, lo>>
toInt32(h) ==
    IF h[1] >= 32768 THEN (h[1] - 65536) * 65536 + h[2] ELSE h[1] * 65536 + h[2]

Min(a, b) == IF a < b THEN a ELSE b

\* a key that leaves the address out
generateCacheKey_NoUrl(url, data) ==
    IF ~Falsy(data) /\ data.t = "string" /\ Len(data.s) > 0 THEN "_data" ELSE ""

generateCacheKey(url, data) ==
    IF ~Falsy(data) /\ data.t = "string" /\ Len(data.s) > 0
    THEN url \o "_" \o ToString(toInt32(
             rollingHash(data.s, 1, Min(Len(data.s), 100), <<0, 0>>)))
    ELSE url

\* Map.has
cacheHas(c, key) == \E i \in DOMAIN c : c[i].key = key

\* Map.get of a key the map has
cacheEntry(c, key) == c[CHOOSE i \in DOMAIN c : c[i].key = key]

\* what get returns on a miss (null)
NoEntry == [key |-> "", shouldIntercept |-> FALSE, reason |-> "", url |-> ""]

\* a get that counts nothing
URLClassificationCache_get_NoCount(c, st, url, data) ==
    LET cacheKey == generateCacheKey(url, data)
    IN  IF cacheHas(c, cacheKey)
        THEN [hit |-> TRUE, entry |-> cacheEntry(c, cacheKey), stats |-> st]
        ELSE [hit |-> FALSE, entry |-> NoEntry, stats |-> st]

\* get(url, data): the entry or null, and the counters after the call
URLClassificationCache_get(c, st, url, data) ==
    LET cacheKey == generateCacheKey(url, data)
    IN  IF cacheHas(c, cacheKey)
        THEN [hit |-> TRUE, entry |-> cacheEntry(c, cacheKey),
              stats |-> [st EXCEPT !.totalRequests = @ + 1, !.hits = @ + 1]]
        ELSE [hit |-> FALSE, entry |-> NoEntry,
              stats |-> [st EXCEPT !.totalRequests = @ + 1, !.misses = @ + 1]]

\* a Map.set that keeps the value of a key the map has
mapSet_KeepOld(c, e) ==
    IF cacheHas(c, e.key) THEN c ELSE Append(c, e)

\* Map.set: a key the map has keeps its place, a new key goes last
mapSet(c, e) ==
    IF cacheHas(c, e.key)
    THEN [i \in DOMAIN c |-> IF c[i].key = e.key THEN e ELSE c[i]]
    ELSE Append(c, e)

\* the last key in insertion order
firstKey_Newest(c) == c[Len(c)].key

\* this.cache.keys().next().value: the first key in insertion order
firstKey(c) == c[1].key

\* Map.delete
mapDelete(c, key) == SelectSeq(c, LAMBDA e : e.key # key)

\* a set that never deletes
URLClassificationCache_set_NoEviction(c, url, data, result) ==
    mapSet(c, [key |-> generateCacheKey(url, data),
               shouldIntercept |-> result.shouldIntercept,
               reason |-> result.reason, url |-> url])

\* set(url, data, result): the map after the call (the timestamp is left out)
URLClassificationCache_set(c, url, data, result) ==
    LET cacheKey == generateCacheKey(url, data)
        kept == IF Len(c) >= maxCacheSize THEN mapDelete(c, firstKey(c)) ELSE c
    IN  mapSet(kept, [key |-> cacheKey, shouldIntercept |-> result.shouldIntercept,
                      reason |-> result.reason, url |-> url])

\* clear(): the map and the counters after the call
URLClassificationCache_clear ==
    [cache |-> <<>>, stats |-> [hits |-> 0, misses |-> 0, totalRequests |-> 0]]

\* the history of insertions, a sequence of <<key, time>>: what set leaves of
\* it.  The key set deletes is forgotten; a key the map has not is inserted
\* at a time later than every time recorded
bornSet(c, b, key) ==
    LET kept == IF Len(c) >= maxCacheSize
                THEN SelectSeq(b, LAMBDA kt : kt[1] # firstKey(c)) ELSE b
        latest == IF b = <<>> THEN 0 ELSE b[Len(b)][2]
    IN  IF \E i \in DOMAIN kept : kept[i][1] = key
        THEN kept
        ELSE Append(kept, <<key, latest + 1>>)

\* the history after a call of shouldInterceptUrl that took the map from c
\* to c2: on a miss the call has set the key that is now the last one
bornAfter(c, c2, b) ==
    IF c2 = c THEN b ELSE bornSet(c, b, c2[Len(c2)].key)

----------------------------------------------------------------------------
(* shouldInterceptUrl                                                      *)

\* a classification in which the whitelist ends the decision: an address
\* with a code-indexing pattern is not matched against INTERCEPT_PATTERNS
classifyUrl_WhitelistWins(url) ==
    LET urlLower == toLowerCase(url)
    IN  IF somePatternIn(essentialLower, urlLower)
        THEN [shouldIntercept |-> FALSE, reason |-> "essential endpoint"]
        ELSE IF somePatternIn(codeIndexingLower, urlLower)
        THEN [shouldIntercept |-> FALSE, reason |-> "code indexing whitelist"]
        ELSE IF somePatternIn(interceptLower, urlLower)
                /\ ~somePatternIn(importantPatterns, urlLower)
        THEN [shouldIntercept |-> TRUE, reason |-> "intercept pattern"]
        ELSE [shouldIntercept |-> FALSE, reason |-> "no intercept pattern"]

\* the classification shouldInterceptUrl computes on a cache miss; the reasons
\* are the source's, in English
classifyUrl(url) ==
    LET urlLower == toLowerCase(url)
        isEssential == somePatternIn(essentialLower, urlLower)
        isCodeIndexing == enableEnhancedWhitelist
                          /\ somePatternIn(codeIndexingLower, urlLower)
        \* after the whitelist check shouldIntercept is still false
        afterWhitelist == [shouldIntercept |-> FALSE,
                           reason |-> IF isCodeIndexing
                                      THEN "code indexing whitelist" ELSE ""]
        matchesInterceptPattern == somePatternIn(interceptLower, urlLower)
        isImportant == somePatternIn(importantPatterns, urlLower)
    IN  IF isEssential
        THEN [shouldIntercept |-> FALSE, reason |-> "essential endpoint"]
        ELSE IF ~afterWhitelist.shouldIntercept
        THEN IF matchesInterceptPattern
             THEN IF isImportant
                  THEN [shouldIntercept |-> FALSE, reason |-> "important url"]
                  ELSE [shouldIntercept |-> TRUE, reason |-> "intercept pattern"]
             ELSE [shouldIntercept |-> FALSE, reason |-> "no intercept pattern"]
        ELSE afterWhitelist

\* shouldInterceptUrl(url, data) on cache c with counters st: the boolean it
\* returns and the cache and counters it leaves
shouldInterceptUrl(url, data, c, st) ==
    LET cached == URLClassificationCache_get(c, st, url, data)
        result == classifyUrl(url)
    IN  IF cached.hit
        THEN [result |-> cached.entry.shouldIntercept, cache |-> c,
              stats |-> cached.stats]
        ELSE [result |-> result.shouldIntercept,
              cache |-> URLClassificationCache_set(c, url, data, result),
              stats |-> cached.stats]

----------------------------------------------------------------------------
(* isSessionId                                                             *)

HexChars == "0123456789abcdefABCDEF"
TokenChars == "abcdefghijklmnopqrstuvwxyzABCDEFGHIJKLMNOPQRSTUVWXYZ0123456789_-"

allCharsIn(s, from, to, alphabet) ==
    \A i \in from..to : includes(alphabet, SubSeq(s, i, i))

\* /^[0-9a-f]{8}-[0-9a-f]{4}-[0-9a-f]{4}-[0-9a-f]{4}-[0-9a-f]{12}$/i
uuidPattern(s) ==
    /\ Len(s) = 36
    /\ \A i \in {9, 14, 19, 24} : SubSeq(s, i, i) = "-"
    /\ allCharsIn(s, 1, 8, HexChars) /\ allCharsIn(s, 10, 13, HexChars)
    /\ allCharsIn(s, 15, 18, HexChars) /\ allCharsIn(s, 20, 23, HexChars)
    /\ allCharsIn(s, 25, 36, HexChars)

isSessionId(value) ==
    \/ uuidPattern(value)
    \/ (Len(value) >= 16 /\ allCharsIn(value, 1, Len(value), TokenChars))

----------------------------------------------------------------------------
(* FeatureVectorSpoofer                                                    *)

isFeatureVectorEndpoint(url) ==
    IF ~enableFeatureVectorSpoofer THEN FALSE
    ELSE IF url = "" THEN FALSE
    ELSE includes(toLowerCase(url), "report-feature-vector")

\* fakeFeatureVector, the value generateCompleteFeatureVector returns to
\* processFeatureVectorRequest: client_name and the feature_vector of 42
\* synthetic hashes, which stands in the adapters as one value
fakeFeatureVector ==
    << <<"client_name", "vscode-extension">>,
       <<"feature_vector", "synthetic-feature-vector">> >>

hasKey(o, k) == \E i \in DOMAIN o : o[i][1] = k
valueOf(o, k) == o[CHOOSE i \in DOMAIN o : o[i][1] = k][2]

\* the object spread { ...a, ...b }
spread(a, b) ==
    [i \in DOMAIN a |-> IF hasKey(b, a[i][1])
                        THEN <<a[i][1], valueOf(b, a[i][1])>> ELSE a[i]]
    \o SelectSeq(b, LAMBDA kv : ~hasKey(a, kv[1]))

\* modifiedData of processFeatureVectorRequest(requestData, url)
processFeatureVectorRequest(requestData) ==
    spread(requestData, fakeFeatureVector)

\* the adapters' reading of a request body: the object parsed from a string,
\* the object itself, or {} when there is no body or JSON.parse throws
originalDataOf(body) ==
    IF Falsy(body) THEN <<>>
    ELSE IF body.t = "string" THEN (IF body.parses THEN body.o ELSE <<>>)
    ELSE body.o

----------------------------------------------------------------------------
(* FeatureVectorSpoofer: calculateHash                                     *)

\* a number, written in decimal
Num(s) == [t |-> "number", s |-> s, o |-> <<>>, parses |-> FALSE]

\* JSON.stringify of a string without characters to escape, or of a number
stringifyValue(v) == IF v.t = "string" THEN "\"" \o v.s \o "\"" ELSE v.s

HexDigits == "0123456789abcdef"

\* Number.prototype.toString(16) of a natural number
RECURSIVE toString16(_)
toString16(n) ==
    IF n < 16 THEN SubSeq(HexDigits, n + 1, n + 1)
    ELSE toString16(n \div 16) \o SubSeq(HexDigits, (n % 16) + 1, (n % 16) + 1)

\* String.prototype.padStart(width, '0')
RECURSIVE padStart(_, _)
padStart(s, width) == IF Len(s) >= width THEN s ELSE padStart("0" \o s, width)

\* hash.toString(16) without Math.abs: a negative hash keeps its sign
absToString16_Signed(h) ==
    LET negative == h[1] >= 32768
        lo == IF negative THEN (65536 - h[2]) % 65536 ELSE h[2]
        hi == IF negative THEN 65535 - h[1] + (IF h[2] = 0 THEN 1 ELSE 0)
              ELSE h[1]
    IN  (IF negative THEN "-" ELSE "")
        \o (IF hi = 0 THEN toString16(lo)
            ELSE toString16(hi) \o padStart(toString16(lo), 4))

\* Math.abs(hash).toString(16) of the hash kept as 16-bit halves; the
\* magnitude of -2^31 is 2^31
absToString16(h) ==
    LET negative == h[1] >= 32768
        lo == IF negative THEN (65536 - h[2]) % 65536 ELSE h[2]
        hi == IF negative THEN 65535 - h[1] + (IF h[2] = 0 THEN 1 ELSE 0)
              ELSE h[1]
    IN  IF hi = 0 THEN toString16(lo)
        ELSE toString16(hi) \o padStart(toString16(lo), 4)

\* parseInt(c, 16) of one character as the operator ^ takes it: the digit's
\* value, and 0 for NaN (a character that is no hexadecimal digit, or
\* undefined)
hexValueOf ==
    [c \in {SubSeq("0123456789abcdefABCDEF", i, i) : i \in 1..22} |->
        LET i == CHOOSE j \in 1..22 : SubSeq("0123456789abcdefABCDEF", j, j) = c
        IN  IF i <= 16 THEN i - 1 ELSE i - 7]

hexDigitSet == DOMAIN hexValueOf

parseInt16(c) == IF c \in hexDigitSet THEN hexValueOf[c] ELSE 0

\* a ^ b on values below 16, bit by bit
xorOf ==
    [a \in 0..15 |-> [b \in 0..15 |->
        LET bit(k) == ((a \div k) + (b \div k)) % 2
        IN  bit(1) + 2 * bit(2) + 4 * bit(4) + 8 * bit(8)]]

xor(a, b) == xorOf[a][b]

\* sessionId.replace(/-/g, '')
RECURSIVE withoutDashes(_)
withoutDashes(s) ==
    IF Len(s) = 0 THEN ""
    ELSE IF Len(s) = 1 THEN (IF s = "-" THEN "" ELSE s)
    ELSE withoutDashes(SubSeq(s, 1, Len(s) \div 2))
         \o withoutDashes(SubSeq(s, Len(s) \div 2 + 1, Len(s)))

\* a seed that does not depend on the session
sessionSeed_Default(sessionId) == "defaults"

\* sessionSeed = sessionId.replace(/-/g, '').substring(0, 8)
sessionSeed(sessionId) ==
    LET hex == withoutDashes(sessionId) IN SubSeq(hex, 1, Min(Len(hex), 8))

\* the character the loop appends when extendedHash has length p; padded is
\* index.toString(16).padStart(2, '0')
combinedChar(p, seed, padded) ==
    LET seedChar == IF Len(seed) = 0 THEN ""
                    ELSE SubSeq(seed, (p % Len(seed)) + 1, (p % Len(seed)) + 1)
        indexChar == SubSeq(padded, (p % 2) + 1, (p % 2) + 1)
    IN  toString16(xor(parseInt16(seedChar), parseInt16(indexChar)))

\* the characters the loop appends at the lengths a..b (the range is halved
\* so that the evaluation stays shallow)
RECURSIVE extension(_, _, _, _)
extension(a, b, seed, padded) ==
    IF a > b THEN ""
    ELSE IF a = b THEN combinedChar(a, seed, padded)
    ELSE extension(a, (a + b) \div 2, seed, padded)
         \o extension((a + b) \div 2 + 1, b, seed, padded)

\* a calculateHash whose loop takes its seed characters from the hash of the
\* data
calculateHash_DataInTail(data, index, sessionId) ==
    LET saltedData == ToString(index) \o ":" \o stringifyValue(data)
        hash == rollingHash(saltedData, 1, Len(saltedData), <<0, 0>>)
        baseHash == absToString16(hash)
        padded == padStart(toString16(index), 2)
    IN  SubSeq(baseHash \o extension(Len(baseHash), 63, baseHash, padded), 1, 64)

\* calculateHash(data, index) when SessionManager.getMainSessionId() is
\* sessionId
calculateHash(data, index, sessionId) ==
    LET saltedData == ToString(index) \o ":" \o stringifyValue(data)
        hash == rollingHash(saltedData, 1, Len(saltedData), <<0, 0>>)
        baseHash == absToString16(hash)
        seed == sessionSeed(sessionId)
        padded == padStart(toString16(index), 2)
        extendedHash ==
            IF Len(seed) >= 0 /\ Len(padded) >= 0
            THEN baseHash \o extension(Len(baseHash), 63, seed, padded)
            ELSE baseHash
    IN  SubSeq(extendedHash, 1, 64)

\* calculateVersionHash(data)
calculateVersionHash(data, sessionId) == "v1#" \o calculateHash(data, 12, sessionId)

----------------------------------------------------------------------------
(* FeatureVectorSpoofer: the generators and the bundle                     *)

\* INTERCEPTOR_CONFIG.system, as generateFakeSystemInfo fills it on a
\* darwin / arm64 host
system ==
    [platform |-> "darwin", arch |-> "arm64", hostname |-> "macbook-pro.local",
     type |-> "Darwin", version |-> "23.1.0", vscodeVersion |-> "1.85.0",
     macUUID |-> "0A1B2C3D-4E5F-6071-8293-A4B5C6D7E8F9",
     macSerial |-> "C02XK1ABQ05D", macBoardId |-> "Mac-27AD2F918AE68F61",
     macModel |-> "MacBookPro18,1"]

\* what Math.random and Date.now give during one call: every generator
\* takes the entry of this number from its list
Randoms == {0, 1}

pick(options, rnd) == options[rnd + 1]

\* key in this.fakeDataCache, this.fakeDataCache[key] and
\* this.fakeDataCache[key] = value
fakeHas(fdc, key) == \E i \in DOMAIN fdc : fdc[i][1] = key
fakeGet(fdc, key) == fdc[CHOOSE i \in DOMAIN fdc : fdc[i][1] = key][2]
fakeSet(fdc, key, value) ==
    IF fakeHas(fdc, key)
    THEN [i \in DOMAIN fdc |-> IF fdc[i][1] = key THEN <<key, value>> ELSE fdc[i]]
    ELSE Append(fdc, <<key, value>>)

\* Object.keys(this.fakeDataCache).map(key => this.fakeDataCache[key]).join('')
RECURSIVE joinValues(_, _, _)
joinValues(fdc, a, b) ==
    IF a > b THEN ""
    ELSE IF a = b THEN fdc[a][2].s
    ELSE joinValues(fdc, a, (a + b) \div 2) \o joinValues(fdc, (a + b) \div 2 + 1, b)

\* if (!this.fakeDataCache[key]): the generator is called
invokesGenerator(key, fdc) == ~fakeHas(fdc, key) \/ Falsy(fakeGet(fdc, key))

\* the generator a caller of generateConsistentFakeData passes with its own
\* key "count": () => Math.floor(Math.random() * 2)
callerGenerators == [count |-> <<Num("0"), Num("1")>>]

RECURSIVE generator(_, _, _, _)
RECURSIVE generateConsistentFakeData(_, _, _, _)

\* a generateConsistentFakeData that runs the generator on every call
generateConsistentFakeData_NoMemo(key, fdc, rnd, sessionId) ==
    LET made == generator(key, fdc, rnd, sessionId)
    IN  [value |-> made.value, cache |-> fakeSet(made.cache, key, made.value)]

\* generateConsistentFakeData(key, generator): the value it returns and the
\* fakeDataCache it leaves
generateConsistentFakeData(key, fdc, rnd, sessionId) ==
    IF ~invokesGenerator(key, fdc)
    THEN [value |-> fakeGet(fdc, key), cache |-> fdc]
    ELSE LET made == generator(key, fdc, rnd, sessionId)
         IN  [value |-> made.value, cache |-> fakeSet(made.cache, key, made.value)]

\* the generator functions of generateFakeHardwareUUID ... generateFakeChecksum
\* and of bootTime: the value made and the fakeDataCache left by the
\* generators it calls
generator(key, fdc, rnd, sessionId) ==
    LET made(v) == [value |-> v, cache |-> fdc]
    IN  CASE key = "hardwareUUID" -> made(Text(system.macUUID))
          [] key = "deviceSerial" -> made(Text(system.macSerial))
          [] key = "boardId" -> made(Text(system.macBoardId))
          [] key = "deviceModel" -> made(Text(system.macModel))
          [] key = "cpuInfo" ->
                made(Text(pick(<<"Apple M1 4-Core", "Apple M1 Pro 6-Core">>, rnd)))
          [] key = "memoryInfo" -> made(Text(pick(<<"8GB DDR4", "16GB DDR5">>, rnd)))
          [] key = "diskInfo" ->
                made(Text(pick(<<"256GB SSD S/N:000000000000",
                                 "512GB NVMe SSD S/N:111111111111">>, rnd)))
          [] key = "networkMAC" ->
                made(Text(pick(<<"00:00:00:00:00:00", "01:01:01:01:01:01">>, rnd)))
          [] key = "gpuInfo" -> made(Text(pick(<<"Apple M1 GPU", "Apple M1 Pro GPU">>, rnd)))
          [] key = "otherHardware" -> made(Text(pick(<<"USB 3.0 Hub", "Bluetooth 5.0">>, rnd)))
          [] key = "systemVersion" -> made(Text(system.platform \o " " \o system.version))
          [] key = "bootTime" ->
                made(Num(pick(<<"1762186400000", "1762186400001">>, rnd)))
          [] key = "vscodeVersion" -> made(Text(system.vscodeVersion))
          [] key = "nodeVersion" -> made(Text(pick(<<"v18.17.0", "v18.18.0">>, rnd)))
          [] key = "electronVersion" -> made(Text(pick(<<"25.8.0", "25.8.1">>, rnd)))
          [] key = "username" -> made(Text(pick(<<"developer1", "user2">>, rnd)))
          [] key = "homeDir" ->
                LET username == generateConsistentFakeData("username", fdc, rnd, sessionId)
                IN  [value |-> Text("/Users/" \o username.value.s),
                     cache |-> username.cache]
          [] key = "shell" -> made(Text("/bin/zsh"))
          [] key = "networkConfig" ->
                LET mac == generateConsistentFakeData("networkMAC", fdc, rnd, sessionId)
                IN  [value |-> Text(pick(<<"IP:192.168.0.0", "IP:192.168.1.1">>, rnd)
                                    \o " MAC:" \o mac.value.s),
                     cache |-> mac.cache]
          [] key = "checksum" ->
                made(Text(calculateHash(Text(joinValues(fdc, 1, Len(fdc))), 999,
                                        sessionId)))
          [] key \in DOMAIN callerGenerators -> made(pick(callerGenerators[key], rnd))

\* featureGenerators: the key of the generator of an index that has one in
\* fakeDataCache, and the value of an index that has none
featureKeys ==
    << "hardwareUUID", "deviceSerial", "boardId", "deviceModel", "cpuInfo",
       "memoryInfo", "diskInfo", "networkMAC", "gpuInfo", "otherHardware",
       "", "", "systemVersion", "", "", "", "", "", "", "bootTime",
       "vscodeVersion", "", "nodeVersion", "electronVersion", "", "", "", "",
       "", "",
       "username", "homeDir", "shell", "", "", "", "", "", "", "",
       "networkConfig", "checksum" >>

featureConstants ==
    << "", "", "", "", "", "", "", "", "", "",
       system.platform, system.arch, "", system.version, system.version,
       system.hostname, system.type, "en-US", "UTC", "",
       "", "vscode", "", "", "augment-code-extension", "default-config",
       "workspace-info", "installed-extensions", "theme-settings",
       "plugin-config",
       "", "", "", "/usr/bin:/bin", "env-vars", "user-permissions",
       "user-groups", "login-session", "config-path", "data-directory",
       "", "" >>

\* const fakeData = generator() for index i
fakeDataOf(i, fdc, rnd, sessionId) ==
    IF featureKeys[i + 1] # ""
    THEN generateConsistentFakeData(featureKeys[i + 1], fdc, rnd, sessionId)
    ELSE [value |-> Text(featureConstants[i + 1]), cache |-> fdc]

\* the loop over the indexes a..b of generateCompleteFeatureVector: the
\* fakeData of every index, after those of acc, and the fakeDataCache left
\* (the range is halved so that the evaluation stays shallow; the indexes
\* are taken in order)
RECURSIVE featureLoop(_, _, _, _, _)
featureLoop(a, b, acc, rnd, sessionId) ==
    IF a = b
    THEN LET fakeData == fakeDataOf(a, acc.cache, rnd, sessionId)
         IN  [data |-> Append(acc.data, fakeData.value), cache |-> fakeData.cache]
    ELSE LET left == featureLoop(a, (a + b) \div 2, acc, rnd, sessionId)
         IN  IF Len(left.data) >= 0
             THEN featureLoop((a + b) \div 2 + 1, b, left, rnd, sessionId)
             ELSE left

\* the generators of the indexes 0..41 called in order: the fakeData of each
\* and the fakeDataCache left
allFakeData(fdc, rnd, sessionId) ==
    featureLoop(0, 41, [data |-> <<>>, cache |-> fdc], rnd, sessionId)

\* generateCompleteFeatureVector(): feature_vector, the hash of the fakeData
\* of every index 0..41 (entry i + 1 is index i), and the fakeDataCache left
generateCompleteFeatureVector(fdc, rnd, sessionId) ==
    LET all == allFakeData(fdc, rnd, sessionId)
        hashed(data) ==
            [j \in 1..42 |->
                IF j - 1 = 12 THEN calculateVersionHash(data[j], sessionId)
                ELSE calculateHash(data[j], j - 1, sessionId)]
    IN  [feature_vector |-> hashed(all.data), cache |-> all.cache]

\* fakeDataCache after a call of an adapter, which has called
\* processFeatureVectorRequest or has not
fakeDataCacheAfter(spoofs, fdc, rnd, sessionId) ==
    IF spoofs THEN allFakeData(fdc, rnd, sessionId).cache ELSE fdc

\* nothing returned yet: the last calculateHash call (its arguments, the
\* session id in force and the string returned), the call before it with
\* the same arguments, the last feature_vector and the one before it when
\* neither regenerateSessionIds nor clearCache has run between the two
NothingEmitted ==
    [data |-> "", index |-> 0, hash |-> "", sid |-> "",
     prevHash |-> "", prevSid |-> "",
     feature_vector |-> <<>>, prevVector |-> <<>>]

----------------------------------------------------------------------------
(* The host's calls                                                        *)

\* addresses the host calls through the adapters
FeatureVectorUrl == "https://api.x.io/report-feature-vector"
UnknownUrl == "https://x.io/unknown-endpoint"

ShimUrls ==
    { FeatureVectorUrl,
      "https://api.x.io/chat-stream",
      "https://api.segment.io/v1/token",
      "https://x.io/analytics",
      "https://x.io/v1/track",
      UnknownUrl }

\* addresses of the calls that carry a body, and of those that carry the
\* x-request-session-id header
PayloadUrls == { FeatureVectorUrl, "https://api.x.io/chat-stream", UnknownUrl }
HeaderUrls == { FeatureVectorUrl, UnknownUrl }

MachineObject == << <<"machine", "m1">>, <<"feature_vector", "real">> >>

\* request bodies given as strings, and as axios gives them
StringBodies == { JsonText(MachineObject), Text("telemetry ping") }
AxiosBodies == { Obj(MachineObject), Text("telemetry ping") }

\* values of the x-request-session-id header: a UUID and a token of 20
\* characters, which have the shape of a session id, and a value that has not
UuidHeader == "9f1c2d3e-4a5b-4c6d-8e7f-001122334455"
TokenHeader == "sess_0123456789-abcd"
HeaderValues == { UuidHeader, TokenHeader }

\* values generateUUID gives the main session id
SessionUUIDs == { "11111111-2222-4333-8444-555555555555" }

\* the result object of a classification, { shouldIntercept, reason }
NoDecision == [shouldIntercept |-> FALSE, reason |-> ""]

\* no call: "" is no header, fault is a field generator of the synthetic
\* bundle that throws, fresh is a new XMLHttpRequest
NoReq ==
    [op |-> "none", url |-> "", body |-> Undefined, hdr |-> "", cb |-> FALSE,
     fault |-> FALSE, fresh |-> FALSE, d |-> NoDecision, index |-> 0]

\* a call with no body and no header, with a body, with the header, and a
\* feature-vector call during which a generator throws
CallsOf(op, bodies) ==
    { [NoReq EXCEPT !.op = op, !.url = u] : u \in ShimUrls }
    \cup { [NoReq EXCEPT !.op = op, !.url = u, !.body = b] :
             u \in PayloadUrls, b \in bodies }
    \cup { [NoReq EXCEPT !.op = op, !.url = u, !.hdr = h] :
             u \in HeaderUrls, h \in HeaderValues }
    \cup { [NoReq EXCEPT !.op = op, !.url = FeatureVectorUrl, !.fault = TRUE] }

FetchCalls == CallsOf("fetch", StringBodies)
AxiosCalls == CallsOf("axios", AxiosBodies)

\* http.request(url, callback) and http.request(url), and a call that
\* carries the header
HttpCalls ==
    { [NoReq EXCEPT !.op = "http", !.url = u, !.cb = cb] :
        u \in ShimUrls, cb \in BOOLEAN }
    \cup { [NoReq EXCEPT !.op = "http", !.url = UnknownUrl, !.cb = TRUE,
                         !.hdr = UuidHeader] }

XhrOpenCalls ==
    { [NoReq EXCEPT !.op = "xhr.open", !.url = u, !.fresh = f] :
        u \in ShimUrls, f \in BOOLEAN }

XhrHeaderCalls ==
    { [NoReq EXCEPT !.op = "xhr.setRequestHeader", !.hdr = h] :
        h \in {UuidHeader, "abc"} }

XhrSendCalls ==
    { [NoReq EXCEPT !.op = "xhr.send", !.body = b, !.fault = f] :
        b \in {JsonText(MachineObject)}, f \in BOOLEAN }

\* direct calls of the two classifier functions
DirectUrls == { "", UnknownUrl, "https://x.io/analytics" }

UploadCalls ==
    { [NoReq EXCEPT !.op = "shouldInterceptUpload", !.url = u, !.body = b] :
        u \in DirectUrls, b \in {Undefined, Text("telemetry ping")} }

UrlCalls ==
    { [NoReq EXCEPT !.op = "shouldInterceptUrl", !.url = u, !.body = b] :
        u \in DirectUrls, b \in {Undefined, Text("telemetry ping")} }

----------------------------------------------------------------------------
(* State                                                                   *)

\* what a direct call returned: the boolean of a classifier function, or for
\* URLClassificationCache.get whether it found an entry, and the entry; d is
\* the result object given to URLClassificationCache.set; afterSet tells
\* that the call before this one was set with the same arguments
NoRet ==
    [op |-> "none", url |-> "", body |-> Undefined, result |-> FALSE,
     d |-> NoDecision, hit |-> FALSE, entry |-> NoEntry, afterSet |-> FALSE]

\* the record of a call: what the host gave (url, body, hdr, cb, fault), the
\* path the adapter took (decision, via), the calls of original transport
\* functions made for it (realCalls) with the header and body they were given,
\* the fabricated response, and what is left to run (pending); for the
\* fabricated http response the time in ms since it was handed to the
\* callback (clock), the events the caller has called on() with (handlers),
\* the number of these calls (regs), the timers on() has set and the
\* handler calls made (events)
NoCall ==
    [adapter |-> "none", url |-> "", body |-> Undefined, hdr |-> "",
     cb |-> FALSE, fault |-> FALSE, step |-> "", decision |-> "none",
     via |-> "",
     realCalls |-> 0, fwdHdr |-> "", fwdBody |-> Undefined,
     fabricated |-> FALSE, status |-> 0, delivered |-> FALSE,
     pending |-> {}, threw |-> FALSE,
     clock |-> 0, handlers |-> {}, regs |-> 0, timers |-> {}, events |-> <<>>]

\* new XMLHttpRequest(): send is the prototype's, nothing is open
NewXhr == [exists |-> TRUE, send |-> "native", originalSend |-> "none",
           opened |-> FALSE]

Init ==
    /\ req = NoReq
    /\ ret = NoRet
    /\ cache = <<>>
    /\ stats = [hits |-> 0, misses |-> 0, totalRequests |-> 0]
    /\ mainSessionId \in SessionUUIDs
    /\ xhr = [NewXhr EXCEPT !.exists = FALSE]
    /\ call = NoCall
    /\ ncalls = 0
    /\ born = <<>>
    /\ fakeDataCache = <<>>
    /\ emitted = NothingEmitted

\* the call record of a call that starts
StartCall(adapter, r) ==
    [NoCall EXCEPT !.adapter = adapter, !.url = r.url, !.body = r.body,
                   !.hdr = r.hdr, !.cb = r.cb, !.fault = r.fault]

\* the header as the adapters forward it: an identifier-shaped value is
\* replaced by SessionManager.getMainSessionId()
replaceSessionId(hdr, sid) == IF hdr # "" /\ isSessionId(hdr) THEN sid ELSE hdr

\* the original transport function is called with this header and body
Forwarded(k, decision, hdr, body) ==
    [k EXCEPT !.decision = decision, !.via = "", !.realCalls = @ + 1,
              !.fwdHdr = hdr, !.fwdBody = body, !.pending = @ \cup {"real"}]

\* a fabricated response, status 200; it reaches the caller at once
\* (a resolved promise) or when the timer the adapter set fires
Fabricated(k, via, atOnce, timer) ==
    [k EXCEPT !.decision = "block", !.via = via, !.fabricated = TRUE,
              !.status = 200, !.delivered = atOnce,
              !.pending = IF timer THEN @ \cup {"timer"} ELSE @]

\* the adapter throws to its caller
Threw(k, decision) == [k EXCEPT !.decision = decision, !.threw = TRUE]

----------------------------------------------------------------------------
(* The host issues a call                                                  *)

\* the host makes a call when the call before it has ended; the record of
\* the call before it is dropped
HostCall ==
    /\ req.op = "none"
    /\ ncalls < MaxCalls
    /\ call.pending = {}
    /\ \E r \in FetchCalls \cup AxiosCalls \cup HttpCalls \cup XhrOpenCalls
                \cup UploadCalls \cup UrlCalls :
          /\ (r.op = "xhr.open" /\ ~r.fresh) => xhr.exists
          /\ req' = r
    /\ ncalls' = ncalls + 1
    /\ call' = NoCall
    /\ ret' = NoRet
    /\ UNCHANGED <<cache, stats, mainSessionId, xhr, born, fakeDataCache, emitted>>

\* the host goes on with the XMLHttpRequest it has opened
HostXhrStep ==
    /\ req.op = "none"
    /\ call.adapter = "xhr"
    /\ ~call.threw
    /\ \/ /\ call.step = "open"
          /\ req' \in XhrHeaderCalls
       \/ /\ call.step \in {"open", "header"}
          /\ req' \in XhrSendCalls
          /\ req'.fault => xhr.send = "fvWrapper"
    /\ UNCHANGED <<ret, cache, stats, mainSessionId, xhr, call, ncalls, born, fakeDataCache, emitted>>

----------------------------------------------------------------------------
(* NetworkInterceptor: the wrappers.  Each gives the call record, the      *)
(* cache and the counters it leaves.                                       *)

Result(k, c, st) == [call |-> k, cache |-> c, stats |-> st]

\* the wrapper interceptFetchDecrypted installs as global.fetch
interceptFetchDecrypted(r, c, st, sid) ==
    LET k == StartCall("fetch", r)
        urlString == r.url
        urlCheck == shouldInterceptUrl(urlString, OrEmpty(r.body), c, st)
    IN  IF isFeatureVectorEndpoint(urlString)
        THEN IF r.fault
             THEN Result(Threw(k, "substitute"), c, st)
             ELSE Result(Forwarded(k, "substitute", r.hdr,
                      JsonText(processFeatureVectorRequest(originalDataOf(r.body)))),
                      c, st)
        ELSE IF shouldInterceptUpload(OrEmpty(r.body), urlString)
        THEN Result(Fabricated(k, "upload", TRUE, FALSE), c, st)
        ELSE IF \/ includes(urlString, "segment.io")
                \/ includes(urlString, "api.segment.io")
                \/ includes(urlString, "/v1/batch")
                \/ includes(urlString, "/v1/track")
        THEN Result(Fabricated(k, "segment", TRUE, FALSE), c, st)
        ELSE IF urlCheck.result
        THEN Result(Fabricated(k, "url", TRUE, FALSE), urlCheck.cache, urlCheck.stats)
        ELSE Result(Forwarded(k, "allow", replaceSessionId(r.hdr, sid), r.body),
                    urlCheck.cache, urlCheck.stats)

\* the request interceptor interceptAxios registers, followed by axios's
\* dispatch of the config it returns (config.adapter when set, else the real one)
interceptAxios(r, c, st, sid) ==
    LET k == StartCall("axios", r)
        url == r.url
        urlCheck == shouldInterceptUrl(url, Text(""), c, st)
    IN  IF isFeatureVectorEndpoint(url)
        THEN IF r.fault
             THEN Result(Threw(k, "substitute"), c, st)
             ELSE Result(Forwarded(k, "substitute", r.hdr,
                      Obj(processFeatureVectorRequest(originalDataOf(r.body)))),
                      c, st)
        ELSE IF shouldInterceptUpload(OrEmpty(r.body), url)
        THEN Result(Fabricated(k, "upload", TRUE, FALSE), c, st)
        ELSE IF includes(url, "segment.io") \/ includes(url, "/v1/batch")
        THEN Result(Fabricated(k, "segment", TRUE, FALSE), c, st)
        ELSE IF urlCheck.result
        THEN Result(Fabricated(k, "url", TRUE, FALSE), urlCheck.cache, urlCheck.stats)
        ELSE Result(Forwarded(k, "allow", replaceSessionId(r.hdr, sid), r.body),
                    urlCheck.cache, urlCheck.stats)

\* buildUrlFromOptions for options given as a string
buildUrlFromOptions(options) == options

\* createMockResponse that goes on to the original request as well
createMockResponse_AndOriginal(k, callback) ==
    [Fabricated(k, "url", FALSE, callback) EXCEPT
        !.realCalls = @ + 1, !.pending = @ \cup {"real"}]

\* createMockResponse(callback): statusCode 200, handed to the callback by a
\* timer when there is a callback; the request object returned has no events
createMockResponse(k, callback) == Fabricated(k, "url", FALSE, callback)

\* the wrapper interceptHttp installs as http.request and as https.request
interceptHttp(r, c, st) ==
    LET k == StartCall("http", r)
        url == buildUrlFromOptions(r.url)
        urlCheck == shouldInterceptUrl(url, Text(""), c, st)
    IN  IF urlCheck.result
        THEN Result(createMockResponse(k, r.cb), urlCheck.cache, urlCheck.stats)
        ELSE Result(Forwarded(k, "allow", r.hdr, r.body),
                    urlCheck.cache, urlCheck.stats)

\* XMLHttpRequest.prototype.open as replaced by interceptXHRDecrypted, on the
\* object x: the call record, the object, the cache and the counters it leaves
xhrOpen(r, x, c, st) ==
    LET k == [StartCall("xhr", r) EXCEPT !.step = "open"]
        url == r.url
        urlCheck == shouldInterceptUrl(url, Text(""), c, st)
        blocked(via) == [k EXCEPT !.decision = "block", !.via = via]
        mocked == [x EXCEPT !.send = "mockSend"]
    IN  IF isFeatureVectorEndpoint(url)
        THEN [call |-> [k EXCEPT !.decision = "substitute", !.realCalls = @ + 1],
              xhr |-> [x EXCEPT !.originalSend = x.send, !.send = "fvWrapper",
                                !.opened = TRUE],
              cache |-> c, stats |-> st]
        ELSE IF shouldInterceptUpload(Text(""), url)
        THEN [call |-> blocked("upload"), xhr |-> mocked, cache |-> c, stats |-> st]
        ELSE IF includes(url, "segment.io") \/ includes(url, "/v1/batch")
        THEN [call |-> blocked("segment"), xhr |-> mocked, cache |-> c, stats |-> st]
        ELSE IF urlCheck.result
        THEN [call |-> blocked("url"), xhr |-> mocked,
              cache |-> urlCheck.cache, stats |-> urlCheck.stats]
        ELSE [call |-> [k EXCEPT !.decision = "allow", !.realCalls = @ + 1],
              xhr |-> [x EXCEPT !.opened = TRUE],
              cache |-> urlCheck.cache, stats |-> urlCheck.stats]

\* XMLHttpRequest.prototype.setRequestHeader as replaced, for the header
\* x-request-session-id; the browser's setRequestHeader throws
\* InvalidStateError on a request that is not open
xhrSetRequestHeader(k, x, value, sid) ==
    IF ~x.opened
    THEN [k EXCEPT !.step = "header", !.hdr = value, !.threw = TRUE]
    ELSE [k EXCEPT !.step = "header", !.hdr = value,
                   !.fwdHdr = replaceSessionId(value, sid)]

\* the browser's send
nativeSend(k, x, data) ==
    IF ~x.opened THEN [k EXCEPT !.threw = TRUE]
    ELSE [k EXCEPT !.realCalls = @ + 1, !.fwdBody = data,
                   !.pending = @ \cup {"real"}]

\* the send an open that blocks installs on the object
mockSend(k) ==
    [k EXCEPT !.fabricated = TRUE, !.status = 200, !.pending = @ \cup {"timer"}]

\* the send the feature-vector open installs: it calls this._originalSend
\* with the rewritten body; when _originalSend is this wrapper itself the
\* calls never end and the engine throws RangeError
fvWrapperSend(k, x, data, fault) ==
    LET modifiedData == JsonText(processFeatureVectorRequest(originalDataOf(data)))
    IN  IF fault THEN [k EXCEPT !.threw = TRUE]
        ELSE IF x.originalSend = "native" THEN nativeSend(k, x, modifiedData)
        ELSE IF x.originalSend = "mockSend" THEN mockSend(k)
        ELSE [k EXCEPT !.threw = TRUE]

\* this.send(data) on the object x
xhrSend(k0, x, data, fault) ==
    LET k == [k0 EXCEPT !.step = "sent", !.body = data, !.fault = fault]
    IN  IF x.send = "native" THEN nativeSend(k, x, data)
        ELSE IF x.send = "mockSend" THEN mockSend(k)
        ELSE fvWrapperSend(k, x, data, fault)

----------------------------------------------------------------------------
(* Actions                                                                 *)

Fetch ==
    /\ req.op = "fetch"
    /\ LET out == interceptFetchDecrypted(req, cache, stats, mainSessionId)
       IN  call' = out.call /\ cache' = out.cache /\ stats' = out.stats
           /\ born' = bornAfter(cache, out.cache, born)
    /\ \E rnd \in Randoms :
          fakeDataCache' = fakeDataCacheAfter(
              isFeatureVectorEndpoint(req.url) /\ ~req.fault,
              fakeDataCache, rnd, mainSessionId)
    /\ req' = NoReq
    /\ UNCHANGED <<ret, mainSessionId, xhr, ncalls, emitted>>

Axios ==
    /\ req.op = "axios"
    /\ LET out == interceptAxios(req, cache, stats, mainSessionId)
       IN  call' = out.call /\ cache' = out.cache /\ stats' = out.stats
           /\ born' = bornAfter(cache, out.cache, born)
    /\ \E rnd \in Randoms :
          fakeDataCache' = fakeDataCacheAfter(
              isFeatureVectorEndpoint(req.url) /\ ~req.fault,
              fakeDataCache, rnd, mainSessionId)
    /\ req' = NoReq
    /\ UNCHANGED <<ret, mainSessionId, xhr, ncalls, emitted>>

HttpRequest ==
    /\ req.op = "http"
    /\ LET out == interceptHttp(req, cache, stats)
       IN  call' = out.call /\ cache' = out.cache /\ stats' = out.stats
           /\ born' = bornAfter(cache, out.cache, born)
    /\ req' = NoReq
    /\ UNCHANGED <<ret, mainSessionId, xhr, ncalls, fakeDataCache, emitted>>

XhrOpen ==
    /\ req.op = "xhr.open"
    /\ LET out == xhrOpen(req, IF req.fresh THEN NewXhr ELSE xhr, cache, stats)
       IN  /\ call' = out.call /\ xhr' = out.xhr
           /\ cache' = out.cache /\ stats' = out.stats
           /\ born' = bornAfter(cache, out.cache, born)
    /\ req' = NoReq
    /\ UNCHANGED <<ret, mainSessionId, ncalls, fakeDataCache, emitted>>

XhrSetRequestHeader ==
    /\ req.op = "xhr.setRequestHeader"
    /\ call' = xhrSetRequestHeader(call, xhr, req.hdr, mainSessionId)
    /\ req' = NoReq
    /\ UNCHANGED <<ret, cache, stats, mainSessionId, xhr, ncalls, born, fakeDataCache, emitted>>

XhrSend ==
    /\ req.op = "xhr.send"
    /\ call' = xhrSend(call, xhr, req.body, req.fault)
    /\ \E rnd \in Randoms :
          fakeDataCache' = fakeDataCacheAfter(
              xhr.send \notin {"native", "mockSend"} /\ ~req.fault,
              fakeDataCache, rnd, mainSessionId)
    /\ req' = NoReq
    /\ UNCHANGED <<ret, cache, stats, mainSessionId, xhr, ncalls, born, emitted>>

\* SmartDataClassifier.shouldInterceptUpload(data, context) called directly
CallShouldInterceptUpload ==
    /\ req.op = "shouldInterceptUpload"
    /\ ret' = [NoRet EXCEPT !.op = req.op, !.url = req.url, !.body = req.body,
                            !.result = shouldInterceptUpload(req.body, req.url)]
    /\ req' = NoReq
    /\ UNCHANGED <<cache, stats, mainSessionId, xhr, call, ncalls, born, fakeDataCache, emitted>>

\* shouldInterceptUrl(url, data) called directly
CallShouldInterceptUrl ==
    /\ req.op = "shouldInterceptUrl"
    /\ LET out == shouldInterceptUrl(req.url, OrEmpty(req.body), cache, stats)
       IN  /\ ret' = [NoRet EXCEPT !.op = req.op, !.url = req.url,
                                   !.body = req.body, !.result = out.result]
           /\ cache' = out.cache /\ stats' = out.stats
           /\ born' = bornAfter(cache, out.cache, born)
    /\ req' = NoReq
    /\ UNCHANGED <<mainSessionId, xhr, call, ncalls, fakeDataCache, emitted>>

\* a setTimeout callback of a fabricated response runs: the XMLHttpRequest's
\* onreadystatechange and onload, or the http response callback
TimerFires ==
    /\ "timer" \in call.pending
    /\ call' = [call EXCEPT !.pending = @ \ {"timer"}, !.delivered = TRUE]
    /\ UNCHANGED <<req, ret, cache, stats, mainSessionId, xhr, ncalls, born, fakeDataCache, emitted>>

\* the real transport ends the call it was given
RealCallCompletes ==
    /\ "real" \in call.pending
    /\ call' = [call EXCEPT !.pending = @ \ {"real"}, !.delivered = TRUE]
    /\ UNCHANGED <<req, ret, cache, stats, mainSessionId, xhr, ncalls, born, fakeDataCache, emitted>>

Next ==
    \/ HostCall
    \/ HostXhrStep
    \/ Fetch
    \/ Axios
    \/ HttpRequest
    \/ XhrOpen
    \/ XhrSetRequestHeader
    \/ XhrSend
    \/ CallShouldInterceptUpload
    \/ CallShouldInterceptUrl
    \/ TimerFires
    \/ RealCallCompletes

Spec == Init /\ [][Next]_vars

----------------------------------------------------------------------------
(* The two classifier functions on their own: every state is one call of   *)
(* shouldInterceptUpload or of shouldInterceptUrl on an empty cache        *)

\* pieces of addresses: Essential patterns in lower, mixed and upper case,
\* Precise-Block, Generic-Block and whitelist patterns, Segment's host and
\* paths, a local URL, and pieces that are in no table
Fragments ==
    { "chat-stream", "Chat-Stream", "TOKEN", "StreamGenerateContent",
      "analytics", "Telemetry", "stats", "report-error", "user-stats",
      "checkpoint-blobs", "segment.io", "v1/track", "localhost:3000",
      "unknown-endpoint", "health" }

\* the empty address, every Precise-Block pattern alone, and one and two
\* fragments after a host
ClassifierAddresses ==
    { "" }
    \cup { PRECISE_TELEMETRY_ENDPOINTS[i] : i \in DOMAIN PRECISE_TELEMETRY_ENDPOINTS }
    \cup { "https://h.io/" \o a : a \in Fragments }
    \cup { "https://h.io/" \o a \o "/" \o b : a \in Fragments, b \in Fragments }

\* no payload, the empty string, strings and objects with and without a
\* Generic-Block keyword
ClassifierPayloads ==
    { Undefined, Text(""), Text("hello"), Text("telemetry ping"),
      Text("CHAT-STREAM"), Obj(MachineObject),
      Obj(<< <<"event", "Analytics">> >>) }

ClassifierCalls ==
    { [NoReq EXCEPT !.op = op, !.url = u, !.body = b] :
        op \in {"shouldInterceptUpload", "shouldInterceptUrl"},
        u \in ClassifierAddresses, b \in ClassifierPayloads }

InitClassifier ==
    /\ req \in ClassifierCalls
    /\ ret = NoRet
    /\ cache = <<>>
    /\ stats = [hits |-> 0, misses |-> 0, totalRequests |-> 0]
    /\ mainSessionId \in SessionUUIDs
    /\ xhr = [NewXhr EXCEPT !.exists = FALSE]
    /\ call = NoCall
    /\ ncalls = 1
    /\ born = <<>>
    /\ fakeDataCache = <<>>
    /\ emitted = NothingEmitted

NextClassifier ==
    \/ CallShouldInterceptUpload
    \/ CallShouldInterceptUrl

SpecClassifier == InitClassifier /\ [][NextClassifier]_vars

----------------------------------------------------------------------------
(* URLClassificationCache on its own: get, set and clear called in any     *)
(* order, with calls of shouldInterceptUrl between them                    *)

AnalyticsUrl == "https://x.io/analytics"

\* result objects shouldInterceptUrl gives to set
Decisions ==
    { [shouldIntercept |-> TRUE, reason |-> "intercept pattern"],
      [shouldIntercept |-> FALSE, reason |-> "no intercept pattern"] }

\* two addresses with and without a payload: four keys
CacheCalls ==
    { [NoReq EXCEPT !.op = "cache.set", !.url = u, !.body = b, !.d = d] :
        u \in {AnalyticsUrl, UnknownUrl},
        b \in {Undefined, Text("telemetry ping")}, d \in Decisions }
    \cup { [NoReq EXCEPT !.op = "cache.get", !.url = u, !.body = b] :
             u \in {AnalyticsUrl, UnknownUrl},
             b \in {Undefined, Text("telemetry ping")} }
    \cup { [NoReq EXCEPT !.op = "cache.clear"] }
    \cup { [NoReq EXCEPT !.op = "shouldInterceptUrl", !.url = u] :
             u \in {AnalyticsUrl, UnknownUrl} }

\* the next call of a method of the cache; what the call before it returned
\* stays
HostCacheCall ==
    /\ req.op = "none"
    /\ ncalls < MaxOps
    /\ req' \in CacheCalls
    /\ ncalls' = ncalls + 1
    /\ UNCHANGED <<ret, cache, stats, mainSessionId, xhr, call, born, fakeDataCache, emitted>>

\* the call before this one was set with the arguments of this one
sameAsSet(r) ==
    /\ ret.op = "cache.set"
    /\ ret.url = r.url
    /\ ret.body = r.body
    /\ r.op = "cache.set" => ret.d = r.d

\* URLClassificationCache.get(url, data)
CacheGet ==
    /\ req.op = "cache.get"
    /\ LET out == URLClassificationCache_get(cache, stats, req.url, req.body)
       IN  /\ ret' = [NoRet EXCEPT !.op = req.op, !.url = req.url,
                                   !.body = req.body, !.hit = out.hit,
                                   !.entry = out.entry, !.d = ret.d,
                                   !.afterSet = sameAsSet(req)]
           /\ stats' = out.stats
    /\ req' = NoReq
    /\ UNCHANGED <<cache, mainSessionId, xhr, call, ncalls, born, fakeDataCache, emitted>>

\* URLClassificationCache.set(url, data, result)
CacheSet ==
    /\ req.op = "cache.set"
    /\ cache' = URLClassificationCache_set(cache, req.url, req.body, req.d)
    /\ born' = bornSet(cache, born, generateCacheKey(req.url, req.body))
    /\ ret' = [NoRet EXCEPT !.op = req.op, !.url = req.url, !.body = req.body,
                            !.d = req.d, !.afterSet = sameAsSet(req)]
    /\ req' = NoReq
    /\ UNCHANGED <<stats, mainSessionId, xhr, call, ncalls, fakeDataCache, emitted>>

\* URLClassificationCache.clear()
CacheClear ==
    /\ req.op = "cache.clear"
    /\ cache' = URLClassificationCache_clear.cache
    /\ stats' = URLClassificationCache_clear.stats
    /\ born' = <<>>
    /\ ret' = [NoRet EXCEPT !.op = req.op]
    /\ req' = NoReq
    /\ UNCHANGED <<mainSessionId, xhr, call, ncalls, fakeDataCache, emitted>>

NextCache ==
    \/ HostCacheCall
    \/ CacheGet
    \/ CacheSet
    \/ CacheClear
    \/ CallShouldInterceptUrl

SpecCache == Init /\ [][NextCache]_vars

----------------------------------------------------------------------------
(* shouldInterceptUrl and clearCache called in any order, on pairs of      *)
(* address and payload of which some have the same key                     *)

\* the key of AnalyticsUrl with the payload "telemetry ping", and the like
\* of UnknownUrl
AnalyticsKeyUrl == "https://x.io/analytics_1654831481"
UnknownKeyUrl == "https://x.io/unknown-endpoint_1654831481"

SameKeyCalls ==
    { [NoReq EXCEPT !.op = "shouldInterceptUrl", !.url = u, !.body = b] :
        u \in {AnalyticsUrl, UnknownUrl},
        b \in {Undefined, Text("telemetry ping")} }
    \cup { [NoReq EXCEPT !.op = "shouldInterceptUrl", !.url = u] :
             u \in {AnalyticsKeyUrl, UnknownKeyUrl,
                    "https://api.x.io/chat-stream"} }
    \cup { [NoReq EXCEPT !.op = "cache.clear"] }

HostUrlCall ==
    /\ req.op = "none"
    /\ ncalls < MaxOps
    /\ req' \in SameKeyCalls
    /\ ncalls' = ncalls + 1
    /\ UNCHANGED <<ret, cache, stats, mainSessionId, xhr, call, born, fakeDataCache, emitted>>

NextUrl ==
    \/ HostUrlCall
    \/ CallShouldInterceptUrl
    \/ CacheClear

SpecUrl == Init /\ [][NextUrl]_vars

----------------------------------------------------------------------------
(* FeatureVectorSpoofer on its own: calculateHash, generateFeatureVector,  *)
(* regenerateSessionIds and clearFeatureVectorCache called in any order    *)

\* seed data and index: the 32-bit hash of 7:"liiwanxc" is -2^31, that of
\* 0:"bvaearmn" is 0
HashCalls ==
    { [NoReq EXCEPT !.op = "calculateHash", !.body = Text(c[1]), !.index = c[2]] :
        c \in { <<"liiwanxc", 7>>, <<"bvaearmn", 0>>, <<"darwin", 10>> } }

SynthCalls ==
    HashCalls
    \cup { [NoReq EXCEPT !.op = op] :
             op \in {"generateFeatureVector", "regenerateSessionIds",
                     "clearFeatureVectorCache"} }
    \cup { [NoReq EXCEPT !.op = "generateConsistentFakeData", !.url = key] :
             key \in DOMAIN callerGenerators }

\* values generateUUID gives the main session id when it is regenerated: one
\* with the first eight characters of the id of Init, one that differs from
\* it in the eighth character, one that differs everywhere
RegeneratedUUIDs ==
    { "11111111-2222-4333-8444-666666666666",
      "11111112-2222-4333-8444-555555555555",
      "a0b1c2d3-e4f5-4a6b-8c7d-0123456789ab" }

HostSynthCall ==
    /\ req.op = "none"
    /\ ncalls < MaxSynthOps
    /\ req' \in SynthCalls
    /\ ncalls' = ncalls + 1
    /\ UNCHANGED <<ret, cache, stats, mainSessionId, xhr, call, born,
                   fakeDataCache, emitted>>

\* FeatureVectorSpoofer.calculateHash(data, index)
CalculateHash ==
    /\ req.op = "calculateHash"
    /\ LET same == /\ emitted.hash # ""
                   /\ emitted.data = req.body.s
                   /\ emitted.index = req.index
       IN  emitted' =
             [emitted EXCEPT
                !.data = req.body.s, !.index = req.index,
                !.hash = calculateHash(req.body, req.index, mainSessionId),
                !.sid = mainSessionId,
                !.prevHash = IF same THEN emitted.hash ELSE "",
                !.prevSid = IF same THEN emitted.sid ELSE ""]
    /\ ret' = [NoRet EXCEPT !.op = req.op, !.body = req.body]
    /\ req' = NoReq
    /\ UNCHANGED <<cache, stats, mainSessionId, xhr, call, ncalls, born,
                   fakeDataCache>>

\* generateFeatureVector: () => FeatureVectorSpoofer.generateCompleteFeatureVector()
GenerateFeatureVector ==
    /\ req.op = "generateFeatureVector"
    /\ \E rnd \in Randoms :
         LET out == generateCompleteFeatureVector(fakeDataCache, rnd, mainSessionId)
         IN  /\ fakeDataCache' = out.cache
             /\ emitted' = [emitted EXCEPT !.feature_vector = out.feature_vector,
                                           !.prevVector = emitted.feature_vector]
    /\ ret' = [NoRet EXCEPT !.op = req.op]
    /\ req' = NoReq
    /\ UNCHANGED <<cache, stats, mainSessionId, xhr, call, ncalls, born>>

\* regenerateSessionIds: () => SessionManager.regenerateAll()
RegenerateSessionIds ==
    /\ req.op = "regenerateSessionIds"
    /\ mainSessionId' \in RegeneratedUUIDs
    /\ emitted' = [emitted EXCEPT !.feature_vector = <<>>, !.prevVector = <<>>]
    /\ ret' = [NoRet EXCEPT !.op = req.op]
    /\ req' = NoReq
    /\ UNCHANGED <<cache, stats, xhr, call, ncalls, born, fakeDataCache>>

\* clearFeatureVectorCache: () => FeatureVectorSpoofer.clearCache()
ClearFeatureVectorCache ==
    /\ req.op = "clearFeatureVectorCache"
    /\ fakeDataCache' = <<>>
    /\ emitted' = [emitted EXCEPT !.feature_vector = <<>>, !.prevVector = <<>>]
    /\ ret' = [NoRet EXCEPT !.op = req.op]
    /\ req' = NoReq
    /\ UNCHANGED <<cache, stats, mainSessionId, xhr, call, ncalls, born>>

\* FeatureVectorSpoofer.generateConsistentFakeData(key, generator): ret has
\* the key, the value returned, whether the key was in fakeDataCache before
\* the call (hit) and whether the generator was called (result)
CallGenerateConsistentFakeData ==
    /\ req.op = "generateConsistentFakeData"
    /\ \E rnd \in Randoms :
         LET out == generateConsistentFakeData(req.url, fakeDataCache, rnd,
                                               mainSessionId)
         IN  /\ fakeDataCache' = out.cache
             /\ ret' = [NoRet EXCEPT !.op = req.op, !.url = req.url,
                                     !.body = out.value,
                                     !.hit = fakeHas(fakeDataCache, req.url),
                                     !.result = invokesGenerator(req.url, fakeDataCache)]
    /\ req' = NoReq
    /\ UNCHANGED <<cache, stats, mainSessionId, xhr, call, ncalls, born, emitted>>

NextSynth ==
    \/ HostSynthCall
    \/ CallGenerateConsistentFakeData
    \/ CalculateHash
    \/ GenerateFeatureVector
    \/ RegenerateSessionIds
    \/ ClearFeatureVectorCache

SpecSynth == Init /\ [][NextSynth]_vars

----------------------------------------------------------------------------
(* calculateHash on its own: every state is one call                       *)

\* seed data: the 32-bit hash of 7:"uchwaaun" is 305441741 and that of
\* 7:"xcdoaurx" is -305441741
HashData ==
    { Text("liiwanxc"), Text("bvaearmn"), Text("darwin"), Text("uchwaaun"),
      Text("xcdoaurx") }

HashIndexes == {0, 7, 10, 41}

InitHash ==
    /\ req \in { [NoReq EXCEPT !.op = "calculateHash", !.body = d, !.index = i] :
                    d \in HashData, i \in HashIndexes }
    /\ ret = NoRet
    /\ cache = <<>>
    /\ stats = [hits |-> 0, misses |-> 0, totalRequests |-> 0]
    /\ mainSessionId \in SessionUUIDs \cup RegeneratedUUIDs
    /\ xhr = [NewXhr EXCEPT !.exists = FALSE]
    /\ call = NoCall
    /\ ncalls = 1
    /\ born = <<>>
    /\ fakeDataCache = <<>>
    /\ emitted = NothingEmitted

SpecHash == InitHash /\ [][CalculateHash]_vars

----------------------------------------------------------------------------
(* The fabricated http response: one http.request call, and the caller's   *)
(* on() calls on the response its callback was given                       *)

MaxTime == 25
MaxRegistrations == 3

\* the body the 'data' handler is given
mockBody == "{\"success\": true}"

\* mockResponse.on(event, handler) at the time k.clock: 'data' sets a timer
\* of 10 ms, 'end' one of 15 ms, every other event nothing
mockResponseOn(k, event) ==
    LET after(delay) == [event |-> event, at |-> k.clock + delay, id |-> k.regs]
        called == [k EXCEPT !.regs = @ + 1, !.handlers = @ \cup {event}]
    IN  IF event = "data" THEN [called EXCEPT !.timers = @ \cup {after(10)}]
        ELSE IF event = "end" THEN [called EXCEPT !.timers = @ \cup {after(15)}]
        ELSE called

\* the timers that can run next: those that are due and of the least time
\* set (timers of the same time run in an order the engine chooses)
dueTimers(k) ==
    { t \in k.timers : t.at <= k.clock /\ \A u \in k.timers : t.at <= u.at }

\* the timer t runs: handler(mockBody) for 'data', handler() for 'end'
runTimer(k, t) ==
    [k EXCEPT !.timers = @ \ {t},
              !.events = Append(@, [event |-> t.event, id |-> t.id, at |-> t.at,
                                    chunk |-> IF t.event = "data" THEN mockBody ELSE "",
                                    handlers |-> k.handlers])]

InitEvents ==
    /\ req \in HttpCalls
    /\ ret = NoRet
    /\ cache = <<>>
    /\ stats = [hits |-> 0, misses |-> 0, totalRequests |-> 0]
    /\ mainSessionId \in SessionUUIDs
    /\ xhr = [NewXhr EXCEPT !.exists = FALSE]
    /\ call = NoCall
    /\ ncalls = 1
    /\ born = <<>>
    /\ fakeDataCache = <<>>
    /\ emitted = NothingEmitted

\* the caller, which holds the fabricated response since its callback ran,
\* calls on() of it
ResponseOn ==
    /\ req.op = "none"
    /\ call.adapter = "http" /\ call.fabricated /\ call.delivered
    /\ call.regs < MaxRegistrations
    /\ \E event \in {"data", "end", "error"} : call' = mockResponseOn(call, event)
    /\ UNCHANGED <<req, ret, cache, stats, mainSessionId, xhr, ncalls, born, fakeDataCache, emitted>>

\* 5 ms pass
Tick ==
    /\ req.op = "none"
    /\ call.adapter = "http" /\ call.fabricated /\ call.delivered
    /\ call.clock + 5 <= MaxTime
    /\ call' = [call EXCEPT !.clock = @ + 5]
    /\ UNCHANGED <<req, ret, cache, stats, mainSessionId, xhr, ncalls, born, fakeDataCache, emitted>>

\* a setTimeout callback of mockResponse.on runs
ResponseTimerFires ==
    /\ \E t \in dueTimers(call) : call' = runTimer(call, t)
    /\ UNCHANGED <<req, ret, cache, stats, mainSessionId, xhr, ncalls, born, fakeDataCache, emitted>>

NextEvents ==
    \/ HttpRequest
    \/ TimerFires
    \/ RealCallCompletes
    \/ ResponseOn
    \/ Tick
    \/ ResponseTimerFires

SpecEvents == InitEvents /\ [][NextEvents]_vars

----------------------------------------------------------------------------
(* One call through one adapter, from the state after construction         *)

\* addresses in lower case and with upper-case letters: Segment's host, the
\* Precise-Block paths /stats, /usage and /analytics, Segment's /v1/track,
\* the feature-vector path, an Essential path and an address in no table
TransportUrls ==
    { "https://api.segment.io/v1/token", "https://API.SEGMENT.IO/V1/TOKEN",
      "https://x.io/stats", "https://X.IO/STATS",
      "https://x.io/usage",
      "https://x.io/analytics", "https://x.io/Analytics",
      "https://x.io/v1/track", "https://x.io/V1/Track",
      FeatureVectorUrl, "https://API.X.IO/Report-Feature-Vector",
      "https://api.x.io/chat-stream",
      UnknownUrl, "https://x.io/Unknown-Endpoint" }

TransportCalls ==
    { [NoReq EXCEPT !.op = op, !.url = u, !.body = b] :
        op \in {"fetch", "axios"}, u \in TransportUrls,
        b \in {Undefined, Text("hello")} }
    \cup { [NoReq EXCEPT !.op = "http", !.url = u, !.cb = TRUE] :
             u \in TransportUrls }
    \cup { [NoReq EXCEPT !.op = "xhr.open", !.url = u, !.fresh = TRUE] :
             u \in TransportUrls }

InitTransport ==
    /\ req \in TransportCalls
    /\ ret = NoRet
    /\ cache = <<>>
    /\ stats = [hits |-> 0, misses |-> 0, totalRequests |-> 0]
    /\ mainSessionId \in SessionUUIDs
    /\ xhr = [NewXhr EXCEPT !.exists = FALSE]
    /\ call = NoCall
    /\ ncalls = 1
    /\ born = <<>>
    /\ fakeDataCache = <<>>
    /\ emitted = NothingEmitted

NextTransport ==
    \/ Fetch
    \/ Axios
    \/ HttpRequest
    \/ XhrOpen
    \/ HostXhrStep
    \/ XhrSetRequestHeader
    \/ XhrSend
    \/ TimerFires
    \/ RealCallCompletes

SpecTransport == InitTransport /\ [][NextTransport]_vars

----------------------------------------------------------------------------
(* Properties                                                              *)

\* some pattern of the table occurs, case-insensitively, in s
hasPattern(lowerPatterns, s) == somePatternIn(lowerPatterns, toLowerCase(s))

\* the text of a payload that is scanned: the empty string for a payload
\* that is absent, the stringified object for an object
scanned(v) ==
    IF v.t = "undefined" THEN "" ELSE dataStr(v)

\* no pattern of any table occurs in s
NoPattern(s) ==
    /\ ~hasPattern(essentialLower, s)
    /\ ~hasPattern(preciseLower, s)
    /\ ~hasPattern(interceptLower, s)
    /\ ~hasPattern(codeIndexingLower, s)
    /\ ~hasPattern(importantPatterns, s)

\* the host has made the whole call: an XMLHttpRequest has been sent
Issued ==
    \/ call.adapter \in {"fetch", "axios", "http"}
    \/ call.adapter = "xhr" /\ call.step = "sent"

\* the pairs of an object
pairsOf(v) == { v.o[i] : i \in DOMAIN v.o }

\* C1: shouldInterceptUpload returns false for every address in which an
\* Essential pattern occurs, in any letter case, whatever the payload is and
\* whatever other patterns the address and the payload hold.
C1_EssentialAlwaysAllowed ==
    (ret.op = "shouldInterceptUpload" /\ hasPattern(essentialLower, ret.url))
        => ~ret.result

\* an address with an Essential pattern in another letter case and a
\* Precise-Block pattern, with a payload that holds a Generic-Block keyword,
\* has been classified Allow
C1_Witness ==
    /\ ret.op = "shouldInterceptUpload"
    /\ hasPattern(essentialLower, ret.url)
    /\ ~somePatternIn(essentialLower, ret.url)
    /\ hasPattern(preciseLower, ret.url)
    /\ hasPattern(telemetryLower, scanned(ret.body))
    /\ ~ret.result

\* C2: under every adapter a call to an address in which an Essential
\* pattern occurs is never blocked and never answered with a fabricated
\* response.
C2_EssentialNeverFabricated ==
    (call.decision # "none" /\ hasPattern(essentialLower, call.url))
        => (call.decision # "block" /\ ~call.fabricated)

\* a fetch to an address with the Essential pattern "token" has been answered
\* by the Segment check with a fabricated response
C2_SegmentOverridesEssential ==
    /\ call.adapter = "fetch"
    /\ hasPattern(essentialLower, call.url)
    /\ call.via = "segment"
    /\ call.fabricated
    /\ call.realCalls = 0

\* C3: for every address and payload in which no pattern of any table occurs,
\* shouldInterceptUpload and shouldInterceptUrl return false and no adapter
\* blocks the call.
C3_FailOpenDefault ==
    /\ (ret.op # "none" /\ NoPattern(ret.url) /\ NoPattern(scanned(ret.body)))
          => ~ret.result
    /\ (call.decision # "none" /\ NoPattern(call.url)
          /\ NoPattern(scanned(call.body)))
          => (call.decision # "block" /\ ~call.fabricated)

\* a fetch to an address in which no pattern of any table occurs has been
\* answered with a fabricated response
C3_UnknownAddressBlocked ==
    /\ call.adapter = "fetch"
    /\ NoPattern(call.url)
    /\ NoPattern(scanned(call.body))
    /\ call.decision = "block"
    /\ call.fabricated

\* C4: for every address with no Essential and no Precise-Block pattern,
\* shouldInterceptUpload returns true whenever a Generic-Block keyword occurs
\* in the address or in the scanned payload, an absent or empty payload
\* included.
C4_GenericBlock ==
    ( /\ ret.op = "shouldInterceptUpload"
      /\ ~hasPattern(essentialLower, ret.url)
      /\ ~hasPattern(preciseLower, ret.url)
      /\ \/ hasPattern(telemetryLower, ret.url)
         \/ hasPattern(telemetryLower, scanned(ret.body)) )
        => ret.result

\* an address with a Generic-Block keyword and neither an Essential nor a
\* Precise-Block pattern, with no payload, has been classified Allow
C4_KeywordAddressAllowed ==
    /\ ret.op = "shouldInterceptUpload"
    /\ ~hasPattern(essentialLower, ret.url)
    /\ ~hasPattern(preciseLower, ret.url)
    /\ hasPattern(telemetryLower, ret.url)
    /\ Falsy(ret.body)
    /\ ~ret.result

\* C5: shouldInterceptUpload(payload, '') and shouldInterceptUrl('', payload)
\* return false for every payload.
C5_EmptyAddressAllowed ==
    (ret.op \in {"shouldInterceptUpload", "shouldInterceptUrl"} /\ ret.url = "")
        => ~ret.result

\* shouldInterceptUpload has returned true for the empty address
C5_EmptyAddressBlocked ==
    /\ ret.op = "shouldInterceptUpload"
    /\ ret.url = ""
    /\ ret.result

\* C6: under every adapter, when a call is classified Block no original
\* transport function is called for it, and the fabricated response has
\* status 200.
C6_BlockMakesNoRealCall ==
    call.decision = "block"
        => (call.realCalls = 0 /\ (call.fabricated => call.status = 200))

\* a blocked http request has handed its fabricated response to the callback
C6_Witness ==
    /\ call.adapter = "http"
    /\ call.decision = "block"
    /\ call.fabricated
    /\ call.status = 200
    /\ call.delivered
    /\ call.realCalls = 0

\* C7: every call that has been classified reaches Delivered: once nothing
\* of the call is left to run, the caller's completion idiom has fired.
C7_EveryCallDelivered ==
    (Issued /\ call.decision # "none" /\ ~call.threw /\ call.pending = {})
        => call.delivered

\* a blocked http request made without a callback has nothing left to run
\* and has delivered no response
C7_BlockedRequestNeverDelivered ==
    /\ call.adapter = "http"
    /\ call.decision = "block"
    /\ ~call.cb
    /\ call.pending = {}
    /\ ~call.delivered

\* C8: on the Substitute path no field of the original payload is in the
\* payload forwarded to the real call.
C8_FullSyntheticReplacement ==
    (call.decision = "substitute" /\ call.realCalls > 0 /\ ~Falsy(call.fwdBody))
        => pairsOf([o |-> originalDataOf(call.body)]) \cap pairsOf(call.fwdBody) = {}

\* a feature-vector call has forwarded a payload that holds a field of the
\* original payload beside the synthetic bundle
C8_OriginalFieldForwarded ==
    /\ call.decision = "substitute"
    /\ call.realCalls > 0
    /\ <<"machine", "m1">> \in pairsOf(call.fwdBody)
    /\ hasKey(call.fwdBody.o, "feature_vector")
    /\ <<"feature_vector", "real">> \notin pairsOf(call.fwdBody)

\* C9: on every Allow and Substitute path, under every adapter, a header
\* x-request-session-id whose value has the shape of a session id is replaced
\* by the main session id before the real call is made.
C9_SessionIdReplaced ==
    ( /\ call.decision \in {"allow", "substitute"}
      /\ call.realCalls > 0
      /\ call.hdr # ""
      /\ isSessionId(call.hdr) )
        => call.fwdHdr = mainSessionId

\* a feature-vector fetch has forwarded the caller's session id
C9_SessionIdForwarded ==
    /\ call.adapter = "fetch"
    /\ call.decision = "substitute"
    /\ call.realCalls > 0
    /\ isSessionId(call.hdr)
    /\ call.fwdHdr = call.hdr
    /\ call.fwdHdr # mainSessionId

\* C10: when the generation of the synthetic bundle throws, the adapter
\* raises no error to its caller and forwards the call.
C10_NoFaultSurfaces ==
    (call.fault /\ call.decision = "substitute" /\ Issued)
        => (~call.threw /\ call.realCalls > 0)

\* a feature-vector fetch during which a generator threw has thrown to its
\* caller and made no real call
C10_FaultThrown ==
    /\ call.adapter = "fetch"
    /\ call.fault
    /\ call.threw
    /\ call.realCalls = 0

----------------------------------------------------------------------------
(* URLClassificationCache                                                  *)

\* the keys of a map
keysOf(c) == { c[i].key : i \in DOMAIN c }

\* the key whose insertion is the earliest of a history that is not empty
earliest(b) ==
    (CHOOSE kt \in { b[i] : i \in DOMAIN b } :
        \A i \in DOMAIN b : kt[2] <= b[i][2])[1]

\* a step that runs the call named op
StepOf(op) == req.op = op /\ req' = NoReq

\* C11: after any sequence of get, set, clear and shouldInterceptUrl calls
\* the cache holds at most maxCacheSize entries.
C11_SizeBounded == Len(cache) <= maxCacheSize

\* a set into a cache at capacity has left it at capacity
C11_Witness ==
    /\ ret.op = "cache.set"
    /\ ncalls > maxCacheSize
    /\ Len(born) = maxCacheSize
    /\ Len(cache) = maxCacheSize

\* C12: a set of a key the cache has not, into a cache at capacity, removes
\* the entry inserted the earliest and no other, whatever get has hit
\* before, and leaves maxCacheSize entries in the order of their insertion.
C12_FifoEviction ==
    [][ ( /\ StepOf("cache.set")
          /\ Len(cache) = maxCacheSize
          /\ ~cacheHas(cache, generateCacheKey(req.url, req.body)) )
        => ( /\ Len(cache') = maxCacheSize
             /\ keysOf(cache) \ keysOf(cache') = {earliest(born)}
             /\ \A i \in 1..(maxCacheSize - 1) : cache'[i] = cache[i + 1]
             /\ cache'[maxCacheSize].key
                    = generateCacheKey(req.url, req.body) ) ]_vars

\* maxCacheSize + 1 different keys were set after a get has hit the first
\* of them: the cache is at capacity and the first key is gone
C12_Witness ==
    /\ ret.op = "cache.set"
    /\ stats.hits > 0
    /\ Len(cache) = maxCacheSize
    /\ born # <<>>
    /\ born[1][2] = 2
    /\ born[Len(born)][2] = maxCacheSize + 1

\* C13: a get that follows a set of the same address and payload finds an
\* entry, with the shouldIntercept and the reason that set was given.
C13_SetThenGet ==
    (ret.op = "cache.get" /\ ret.afterSet)
        => ( /\ ret.hit
             /\ ret.entry.shouldIntercept = ret.d.shouldIntercept
             /\ ret.entry.reason = ret.d.reason )

\* the set was of a new key into a cache at capacity, and the get after it
\* has found the entry
C13_Witness ==
    /\ ret.op = "cache.get"
    /\ ret.afterSet
    /\ ret.hit
    /\ Len(cache) = maxCacheSize
    /\ born[1][2] = 2
    /\ ret.entry.key = born[Len(born)][1]
    /\ born[Len(born)][2] = maxCacheSize + 1

\* C14: get leaves the entries and their order as they are; it adds one to
\* totalRequests and one to hits when it finds an entry, to misses when it
\* does not.
C14_GetOnlyCounts ==
    [][ StepOf("cache.get")
        => ( /\ cache' = cache
             /\ stats'.totalRequests = stats.totalRequests + 1
             /\ stats'.hits = stats.hits + (IF ret'.hit THEN 1 ELSE 0)
             /\ stats'.misses = stats.misses + (IF ret'.hit THEN 0 ELSE 1) )
      ]_vars

\* C14 as stated: get changes neither the entries nor the counters.
C14_GetChangesNothing ==
    [][ StepOf("cache.get") => (cache' = cache /\ stats' = stats) ]_vars

\* a get has hit and a get has missed, and both were counted
C14_Witness ==
    /\ ret.op = "cache.get"
    /\ cache # <<>>
    /\ stats.hits = 1
    /\ stats.misses = 1
    /\ stats.totalRequests = 2

\* C15: a set with the arguments of the set before it leaves the entries as
\* that set left them.
C15_SetIdempotent ==
    [][ (StepOf("cache.set") /\ sameAsSet(req)) => cache' = cache ]_vars

\* the second of two equal sets into a cache at capacity has removed
\* another entry
C15_SecondSetEvicts ==
    /\ ret.op = "cache.set"
    /\ ret.afterSet
    /\ Len(cache) = maxCacheSize - 1
    /\ born # <<>>
    /\ born[Len(born)][2] = maxCacheSize

----------------------------------------------------------------------------
(* The adapters and the cache                                              *)

\* C16: an adapter call that ends allowed or blocked was classified through
\* the cache: the cache was looked up and holds an entry for the address.
C16_ClassifiedThroughCache ==
    (Issued /\ call.decision \in {"allow", "block"})
        => ( /\ stats.totalRequests > 0
             /\ \E i \in DOMAIN cache : cache[i].url = call.url )

\* after two calls the second, a fetch of the analytics address, is blocked
\* by shouldInterceptUpload: no call has looked the cache up, which is empty
C16_BlockedBeforeCache ==
    /\ ncalls = 2
    /\ call.adapter = "fetch"
    /\ call.url = AnalyticsUrl
    /\ call.decision = "block"
    /\ call.via = "upload"
    /\ stats = [hits |-> 0, misses |-> 0, totalRequests |-> 0]
    /\ cache = <<>>

\* C17: shouldInterceptUrl returns for an address and a payload what it
\* returns for them on an empty cache, after every sequence of calls of
\* shouldInterceptUrl and of clears, and when another pair has the same key.
C17_CacheTransparent ==
    ret.op = "shouldInterceptUrl"
        => ret.result
             = shouldInterceptUrl(ret.url, OrEmpty(ret.body),
                   URLClassificationCache_clear.cache,
                   URLClassificationCache_clear.stats).result

\* the call was served from the entry a call with another address and a
\* payload has written under the same key
C17_Witness ==
    /\ ret.op = "shouldInterceptUrl"
    /\ ret.url = AnalyticsKeyUrl
    /\ ret.result
    /\ stats.hits = 1
    /\ Len(cache) = 1
    /\ cache[1].url = AnalyticsUrl
    /\ cache[1].key = generateCacheKey(ret.url, ret.body)

----------------------------------------------------------------------------
(* FeatureVectorSpoofer                                                    *)

\* the characters from..to of s are hexadecimal digits
isHex(s, from, to) == \A i \in from..to : SubSeq(s, i, i) \in hexDigitSet

\* the first eight characters of a session id without its separators
firstEight(sessionId) == SubSeq(withoutDashes(sessionId), 1, 8)

\* C18: calculateHash returns 64 hexadecimal characters; a bundle has every
\* index 0..41, index 12 holds "v1#" followed by 64 hexadecimal characters
\* and every other index 64 hexadecimal characters.
C18_SixtyFourHex ==
    /\ emitted.hash # "" => (Len(emitted.hash) = 64 /\ isHex(emitted.hash, 1, 64))
    /\ emitted.feature_vector # <<>> =>
          /\ DOMAIN emitted.feature_vector = 1..42
          /\ \A j \in 1..42 :
                LET v == emitted.feature_vector[j]
                IN  IF j - 1 = 12
                    THEN Len(v) = 67 /\ SubSeq(v, 1, 3) = "v1#" /\ isHex(v, 4, 67)
                    ELSE Len(v) = 64 /\ isHex(v, 1, 64)

\* calculateHash has run on a seed whose 32-bit hash is -2^31, after a
\* bundle was generated
C18_Witness ==
    /\ ret.op = "calculateHash"
    /\ emitted.data = "liiwanxc"
    /\ emitted.index = 7
    /\ SubSeq(emitted.hash, 1, 8) = "80000000"
    /\ Len(emitted.feature_vector) = 42

\* C19: under one session id calculateHash returns the same string for the
\* same data and index, and with no regenerateSessionIds and no clearCache
\* between them two bundles are equal at every index.
C19_SessionStable ==
    /\ (emitted.prevHash # "" /\ emitted.prevSid = emitted.sid)
          => emitted.hash = emitted.prevHash
    /\ emitted.prevVector # <<>>
          => \A j \in 1..42 : emitted.feature_vector[j] = emitted.prevVector[j]

\* a second bundle was generated, with a call of calculateHash before it
C19_Witness ==
    /\ ret.op = "generateFeatureVector"
    /\ ncalls = 3
    /\ emitted.hash # ""
    /\ Len(emitted.prevVector) = 42
    /\ emitted.feature_vector = emitted.prevVector

\* C20: calculateHash returns for the same data and index another string
\* than before when the main session id in force differs from the one
\* before in one of its first eight hexadecimal characters.
C20_SessionSensitive ==
    (emitted.prevHash # "" /\ firstEight(emitted.prevSid) # firstEight(emitted.sid))
        => emitted.hash # emitted.prevHash

\* the session id was regenerated to one that differs in the eighth
\* character only, and calculateHash has returned another string
C20_Witness ==
    /\ ret.op = "calculateHash"
    /\ emitted.prevSid = "11111111-2222-4333-8444-555555555555"
    /\ emitted.sid = "11111112-2222-4333-8444-555555555555"
    /\ emitted.prevHash # ""
    /\ emitted.hash # emitted.prevHash

\* C21: a call of generateConsistentFakeData with a key that is in
\* fakeDataCache returns the value kept under the key and does not call the
\* generator.
C21_WriteOnce ==
    [][ (StepOf("generateConsistentFakeData") /\ fakeHas(fakeDataCache, req.url))
        => ( /\ ret'.body = fakeGet(fakeDataCache, req.url)
             /\ ~ret'.result ) ]_vars

\* the key was kept with the value 0; the generator was called again and
\* the call has returned 1
C21_FalsyRegenerated ==
    /\ ret.op = "generateConsistentFakeData"
    /\ ret.url = "count"
    /\ ret.hit
    /\ ret.result
    /\ ret.body = Num("1")

\* C22: after regenerateSessionIds fakeDataCache is empty.
C22_RegenerationClears ==
    ret.op = "regenerateSessionIds" => fakeDataCache = <<>>

\* the session ids were regenerated after a bundle was generated, and the
\* checksum computed under the session id of before is still kept
C22_OldValuesKept ==
    /\ ret.op = "regenerateSessionIds"
    /\ fakeHas(fakeDataCache, "checksum")
    /\ fakeGet(fakeDataCache, "checksum").s
          # calculateHash(Text(joinValues(fakeDataCache, 1, Len(fakeDataCache) - 1)),
                          999, mainSessionId)

----------------------------------------------------------------------------
(* The order of the tiers and the letter case                              *)

outcomeOf(adapter, url, body, sid) ==
    LET r == [NoReq EXCEPT !.url = url, !.body = body]
        st == [hits |-> 0, misses |-> 0, totalRequests |-> 0]
    IN  CASE adapter = "fetch" -> interceptFetchDecrypted(r, <<>>, st, sid).call.decision
          [] adapter = "axios" -> interceptAxios(r, <<>>, st, sid).call.decision
          [] adapter = "http" -> interceptHttp(r, <<>>, st).call.decision
          [] adapter = "xhr" -> xhrOpen(r, NewXhr, <<>>, st).call.decision

\* C24: the outcome of a call is the outcome of the call of the same adapter
\* with the same payload whose address is the address in lower case.
C24_CaseInsensitive ==
    call.decision # "none"
        => call.decision
             = outcomeOf(call.adapter, toLowerCase(call.url),
                         IF call.adapter = "xhr" THEN Undefined ELSE call.body,
                         mainSessionId)

\* a fetch of Segment's host in upper case was forwarded; in lower case the
\* address is blocked
C24_UpperCaseForwarded ==
    /\ call.adapter = "fetch"
    /\ call.url = "https://API.SEGMENT.IO/V1/TOKEN"
    /\ call.decision = "allow"
    /\ call.realCalls = 1
    /\ outcomeOf("fetch", "https://api.segment.io/v1/token", call.body,
                 mainSessionId) = "block"

----------------------------------------------------------------------------
(* XMLHttpRequest objects                                                  *)

\* C25: send on an XMLHttpRequest follows the outcome of the open before it:
\* after an open that allows or substitutes the original send is called
\* once, nothing is fabricated and nothing is thrown; after an open that
\* blocks the original send is not called and the response is fabricated.
C25_SendFollowsLastOpen ==
    (call.adapter = "xhr" /\ call.step = "sent" /\ ~call.fault)
        => IF call.decision = "block"
           THEN call.fabricated /\ call.realCalls = 0
           ELSE ~call.fabricated /\ ~call.threw /\ call.realCalls = 2

\* the second open on the object, of an address that is allowed, called the
\* original open; send then fabricated the response without a real send
C25_AllowGetsFabricated ==
    /\ ncalls = 2
    /\ call.adapter = "xhr"
    /\ call.step = "sent"
    /\ call.url = UnknownUrl
    /\ call.decision = "allow"
    /\ xhr.send = "mockSend"
    /\ call.fabricated
    /\ call.status = 200
    /\ call.realCalls = 1

\* C26: on an XMLHttpRequest whose open blocked, setRequestHeader and send
\* throw nothing, and the call that was sent ends with status 200.
C26_BlockedLooksSuccessful ==
    (call.adapter = "xhr" /\ call.decision = "block")
        => ( /\ ~call.threw
             /\ call.step = "sent" => call.status = 200 )

\* open blocked on a new object, on which the original open was not called;
\* setRequestHeader has thrown
C26_HeaderThrows ==
    /\ call.adapter = "xhr"
    /\ call.decision = "block"
    /\ call.step = "header"
    /\ ~xhr.opened
    /\ call.realCalls = 0
    /\ call.threw

----------------------------------------------------------------------------
(* The four transports                                                     *)

Transports == {"fetch", "xhr", "axios", "http"}

\* C27: the outcome of a call with no payload is the outcome of the call of
\* the same address under each of fetch, XMLHttpRequest, axios and
\* http/https.
C27_SameUnderAllTransports ==
    ( /\ call.decision # "none"
      /\ call.adapter = "xhr" \/ call.body = Undefined )
        => \A a \in Transports :
              outcomeOf(a, call.url, Undefined, mainSessionId) = call.decision

\* http.request of an address with the Precise-Block pattern /usage called
\* the original request; fetch, XMLHttpRequest and axios block the address
C27_HttpForwardsPreciseBlock ==
    /\ call.adapter = "http"
    /\ call.url = "https://x.io/usage"
    /\ isPreciseTelemetryEndpoint(call.url)
    /\ call.decision = "allow"
    /\ call.realCalls = 1
    /\ ~call.fabricated
    /\ \A a \in Transports \ {"http"} :
          outcomeOf(a, call.url, Undefined, mainSessionId) = "block"

----------------------------------------------------------------------------
(* The tables                                                              *)

\* C28: shouldInterceptUpload returns true for every address that is a
\* pattern of PRECISE_TELEMETRY_ENDPOINTS alone, and no such pattern has an
\* Essential pattern in it.
C28_PreciseEffective ==
    ( /\ ret.op = "shouldInterceptUpload"
      /\ \E i \in DOMAIN PRECISE_TELEMETRY_ENDPOINTS :
            ret.url = PRECISE_TELEMETRY_ENDPOINTS[i] )
        => ( /\ ret.result
             /\ ~hasPattern(essentialLower, ret.url) )

\* shouldInterceptUpload has returned false for the Precise-Block pattern
\* /completion-feedback, in which the Essential pattern completion occurs
C28_CompletionFeedbackAllowed ==
    /\ ret.op = "shouldInterceptUpload"
    /\ ret.url = "/completion-feedback"
    /\ isPreciseTelemetryEndpoint(ret.url)
    /\ includes(ret.url, "completion")
    /\ isEssentialEndpoint(ret.url)
    /\ ~ret.result

----------------------------------------------------------------------------
(* The tail of a hash                                                      *)

\* the 32-bit hash calculateHash computes of the salted data, as two halves
hash32(data, index) ==
    LET saltedData == ToString(index) \o ":" \o stringifyValue(data)
    IN  rollingHash(saltedData, 1, Len(saltedData), <<0, 0>>)

\* two 32-bit values are equal or the negation of one another
sameMagnitude(g, h) ==
    \/ g = h
    \/ /\ (g[2] + h[2]) % 65536 = 0
       /\ (g[1] + h[1] + (g[2] + h[2]) \div 65536) % 65536 = 0

\* C29: under one session id and one index the characters 8..63 of what
\* calculateHash returns are the same for every data, and two data whose
\* 32-bit hashes have the same absolute value get the same string.
C29_TailIgnoresData ==
    emitted.hash # "" =>
        \A d \in HashData :
            LET other == calculateHash(d, emitted.index, emitted.sid)
            IN  /\ SubSeq(other, 9, 64) = SubSeq(emitted.hash, 9, 64)
                /\ sameMagnitude(hash32(d, emitted.index),
                                 hash32(Text(emitted.data), emitted.index))
                      => other = emitted.hash

\* calculateHash has run on a seed whose hash is 305441741; the seed whose
\* hash is -305441741 gets the same string, and a seed with another hash
\* gets other first characters and the same tail
C29_Witness ==
    /\ ret.op = "calculateHash"
    /\ emitted.data = "uchwaaun"
    /\ emitted.index = 7
    /\ hash32(Text("uchwaaun"), 7) # hash32(Text("xcdoaurx"), 7)
    /\ sameMagnitude(hash32(Text("uchwaaun"), 7), hash32(Text("xcdoaurx"), 7))
    /\ calculateHash(Text("xcdoaurx"), 7, emitted.sid) = emitted.hash
    /\ SubSeq(emitted.hash, 1, 8) = "1234abcd"
    /\ SubSeq(calculateHash(Text("liiwanxc"), 7, emitted.sid), 1, 8) = "80000000"

----------------------------------------------------------------------------
(* The events of the fabricated http response                              *)

\* C30: the handlers of the fabricated http response are called after the
\* callback; a 'data' handler is called once, with the body; the 'end'
\* handler of a caller that has registered both is called after a 'data'
\* handler.
C30_DataBeforeEnd ==
    /\ call.events # <<>> => call.delivered
    /\ \A i \in DOMAIN call.events :
          LET e == call.events[i]
          IN  /\ e.event = "data" =>
                    /\ e.chunk = mockBody
                    /\ \A j \in DOMAIN call.events :
                          call.events[j].id = e.id => j = i
              /\ (e.event = "end" /\ {"data", "end"} \subseteq e.handlers) =>
                    \E j \in 1..(i - 1) : call.events[j].event = "data"

\* the caller registered 'end' when the callback ran and 'data' 10 ms
\* later; the 'end' handler was called first, at 15 ms, the 'data' handler
\* with the body after it
C30_EndBeforeData ==
    /\ call.adapter = "http"
    /\ call.delivered
    /\ Len(call.events) = 2
    /\ call.events[1].event = "end"
    /\ call.events[1].at = 15
    /\ call.events[1].handlers = {"data", "end"}
    /\ call.events[2].event = "data"
    /\ call.events[2].at = 20
    /\ call.events[2].chunk = mockBody
    /\ call.clock = 20

=============================================================================
